---- MODULE Spec2Model ----
(***************************************************************************)
(* A model of the remotion-animator scene engine: the KnowledgeGraph node  *)
(* network (seeded node generation, closed-form kinematics, proximity      *)
(* edges, the curves drawn for them), the keyframe interpolation used by   *)
(* FuiPanorama and FuiClock, the RollingNumber of a DataBlock, the         *)
(* ArcGauge geometry and tick marks, the ImageAnimator transform, and the  *)
(* command line of render.mjs up to and including the encoder call.        *)
(*                                                                         *)
(* The code computes in IEEE doubles; the model computes in fixed point:   *)
(*   - angles are whole degrees (Turn = 360 to the full circle);           *)
(*   - Math.sin / Math.cos return ten-thousandths (SinScale);              *)
(*   - seededRandom returns ten-thousandths (RandScale), the fractional    *)
(*     part of the tabulated double x it is computed from;                 *)
(*   - positions and distances are tenths of a pixel (PosScale);           *)
(*   - a normalised distance is in ten-thousandths (NormScale) and an      *)
(*     opacity in units of 1 / OpScale, OpScale = NormScale^2.             *)
(* Every intermediate product stays below 2^31.                            *)
(***************************************************************************)
EXTENDS Integers, Sequences, FiniteSets, TLC

VARIABLES
    \* ---- KnowledgeGraph rendered by independent render workers
    cfg,          \* the fixed configuration: props and video config
    memo,         \* per worker: the React.useMemo cell of `nodes`
    frame,        \* per worker: the frame of its last render, or NoFrame
    positions,    \* per worker: `positions` of its last render
    connections,  \* per worker: `connections` of its last render
    renderError,  \* per worker: the last render threw
    first,        \* per frame: the output of the first render of that frame
    \* ---- the connection loop run on given positions
    edgePositions,  \* the positions handed to the loop
    edgeThreshold,  \* connectionDistance, in position units
    edgeLoop,       \* the loop state: counters, list built, pairs examined
    edgeCurves,     \* the GraphConnection elements drawn from the list
    \* ---- the progress interpolation evaluated on any input
    itpFrame,       \* the input handed to interpolate
    itpDuration,    \* durationInFrames, the end of the input range
    itpOut,         \* the value returned, or None before the call
    \* ---- FuiPanorama and FuiClock played back frame by frame
    fuiCfg,         \* durationInFrames, width and the panSpeed prop
    fuiFrame,       \* useCurrentFrame() of the last render, or NoFrame
    fuiOut,         \* the animated values of the last render, or None
    \* ---- ArcGauge evaluated on given props
    arcImpl,        \* which of the two ArcGauge components
    arcIn,          \* the props
    arcOut,         \* the geometry computed, or None before the call
    \* ---- render.mjs run on a command line
    cliArgs,        \* process.argv.slice(2)
    cliPc,          \* "start", "encoding" (inside execSync) or "exited"
    cliExit,        \* the exit code, or NoExit
    cliCmd,         \* the command handed to the encoder, or None
    cliVideo,       \* the video the encoder wrote, or None
    cliPaths,       \* the files and directories that exist
    \* ---- ImageAnimator rendered at any frame
    imgPreset,      \* the preset prop
    imgDuration,    \* durationInFrames
    imgFrame,       \* the frame of the last render, or NoFrame
    imgOut,         \* scale, translateX, translateY of the last render
    \* ---- seededRandom called repeatedly
    rndSeed,        \* the seed under observation
    rndOut,         \* the value of its last call, or None
    rndPrev,        \* the value of the call before that, or None
    rndOther,       \* the last call with another seed, or None
    rndCalls,       \* the number of calls so far
    \* ---- the keyframe tables a composition hands to interpolate
    kfComposition,  \* the composition rendered last, or None
    kfDuration,     \* durationInFrames of that render
    kfTables,       \* the tables of that render, by name
    \* ---- one RollingNumber of a FuiPanorama DataBlock
    rollProps,      \* value, digits, speed and delay
    rollFrame,      \* the frame of its last render, or NoFrame
    rollOut,        \* what that render computed and displayed
    \* ---- KnowledgeGraph rendered again and again with changing inputs
    pgProps,        \* the props and the video config of the last render
    pgFrame,        \* the frame of the last render
    pgMemo,         \* the React.useMemo cell of `nodes`
    pgPositions,    \* `positions` of the last render
    pgChange        \* what changed before the last render

kgVars == <<cfg, memo, frame, positions, connections, renderError, first>>
edgeVars == <<edgePositions, edgeThreshold, edgeLoop, edgeCurves>>
itpVars == <<itpFrame, itpDuration, itpOut>>
fuiVars == <<fuiCfg, fuiFrame, fuiOut>>
arcVars == <<arcImpl, arcIn, arcOut>>
cliVars == <<cliArgs, cliPc, cliExit, cliCmd, cliVideo, cliPaths>>
imgVars == <<imgPreset, imgDuration, imgFrame, imgOut>>
rndVars == <<rndSeed, rndOut, rndPrev, rndOther, rndCalls>>
kfVars == <<kfComposition, kfDuration, kfTables>>
rollVars == <<rollProps, rollFrame, rollOut>>
pgVars == <<pgProps, pgFrame, pgMemo, pgPositions, pgChange>>

vars ==
    <<kgVars, edgeVars, itpVars, fuiVars, arcVars, cliVars, imgVars, rndVars,
      kfVars, rollVars, pgVars>>

(***************************************************************************)
(* Bounds of the model.                                                    *)
(***************************************************************************)
MaxNodes == 3        \* nodeCount ranges over 0..MaxNodes
MaxDuration == 3     \* durationInFrames ranges over 1..MaxDuration
MaxEdgeNodes == 3    \* the connection loop is run on 0..MaxEdgeNodes positions
ItpMargin == 3       \* interpolate is evaluated from -ItpMargin to 100 + ItpMargin
MaxFuiFrame == 100   \* the panels are played back over frames 0..MaxFuiFrame
ArcSteps == 10       \* ArcGauge progress ranges over k / ArcSteps, k = 0..ArcSteps

\* the render workers, each with its own component instance
Workers == {1, 2}

(***************************************************************************)
(* Fixed-point scales.                                                     *)
(***************************************************************************)
Turn == 2 * 180
SinScale == 10^4
RandScale == 10^4
PosScale == 10^1
NormScale == 10^4
OpScale == NormScale * NormScale

None == [none |-> TRUE]
\* no frame rendered yet
NoFrame == 0 - 1
\* the result of 0 / 0 in the code's arithmetic
NaN == [nan |-> TRUE]

(***************************************************************************)
(* Math.sin and Math.cos on whole degrees, Bhaskara's rational             *)
(* approximation: exact at 0, 30, 90, 150, 180 degrees, odd, periodic      *)
(* with period Turn and bounded by SinScale.                               *)
(***************************************************************************)
SinHalf(x) == (16 * x * (180 - x) * SinScale) \div (5 * 180 * 180 - 4 * x * (180 - x))

Sin(a) ==
    LET r == a % Turn
    IN  IF r < 180 THEN SinHalf(r) ELSE -SinHalf(r - 180)

Cos(a) == Sin(a + 90)

(***************************************************************************)
(* Math.sqrt, rounded down to the unit of its argument's square root.      *)
(***************************************************************************)
RECURSIVE SqrtSearch(_, _, _)
SqrtSearch(n, lo, hi) ==
    IF lo >= hi THEN lo
    ELSE LET mid == (lo + hi + 1) \div 2
         IN  IF mid * mid <= n THEN SqrtSearch(n, mid, hi)
             ELSE SqrtSearch(n, lo, mid - 1)

Sqrt(n) == SqrtSearch(n, 0, 46340)

(***************************************************************************)
(* seededRandom: x = Math.sin(seed * 9999) * 10000; return x - floor(x).   *)
(* The sine of seed * 9999 radians is not computable in 32-bit fixed       *)
(* point, so the model tabulates x, the doubles the code computes, in      *)
(* ten-thousandths rounded down, for the seeds i * 1000 + k (node          *)
(* i = 0..5, attribute offset k = 1..10) the node generator uses and for   *)
(* a few other seeds; the fractional part is computed from x as the code   *)
(* does.                                                                   *)
(***************************************************************************)
SineTable ==
    << << 63608695, -98163151,  87880090, -37456461, -30075979,
          83870756, -99356289,  69459321,  -7835752, -57366918>>,
       <<-86471924,  34775419,  32805288, -85401681,  98989553,
         -67362441,   4966505,  59697955, -97094467,  90141600>>,
       <<-35507480,  86862007, -98540991,  65209874,  -2093155,
         -61979646,  97742297, -88859667,  39389028,  28073148>>,
       << 98010968, -63003403,   -781927,  64210099, -98309331,
          87504277, -36730312, -30820783,  84294015, -99264673>>,
       <<  3656362, -66387475,  98795096, -86076554,  34041232,
          33542939, -85805864,  98875651, -66782480,   4185391>>,
       <<-99199195,  84577674, -31324013, -36237369,  87246780,
         -98404896,  64615075,  -1311335, -62591378,  97904524>> >>

\* x for the seeds 0, 42, 100, 12345 and for negative seeds
OtherSines ==
    (0 :> 0) @@ (42 :> 62968986) @@ (-42 :> -62968987) @@ (-1 :> -63608696)
      @@ (-7 :> 99356288) @@ (100 :> 17253308) @@ (-100 :> -17253309)
      @@ (12345 :> -26737421) @@ (-12345 :> 26737420)

\* Math.sin(seed * 9999) * 10000, in ten-thousandths
ScaledSine(seed) ==
    IF seed \in DOMAIN OtherSines THEN OtherSines[seed]
    ELSE SineTable[(seed \div 1000) + 1][seed % 1000]

\* Math.floor(x), in ten-thousandths: the largest whole number <= x
Floor(x) == (x \div RandScale) * RandScale

\* Math.trunc(x): the whole part, rounded towards zero
Trunc(x) == IF x >= 0 THEN Floor(x) ELSE -Floor(-x)

\* the fractional part taken towards zero
seededRandomTruncating(seed) ==
    LET x == ScaledSine(seed)
    IN  x - Trunc(x)

seededRandom(seed) ==
    LET x == ScaledSine(seed)
    IN  x - Floor(x)

(***************************************************************************)
(* getNodePosition: the closed-form position of a node at a frame.         *)
(* t = (frame / duration) * 2 * PI; in degrees t * speed is                *)
(* 360 * frame * speed / duration.                                         *)
(***************************************************************************)
OrbitAngle(f, duration, speed, phase) ==
    (Turn * f * speed) \div (duration * RandScale) + phase

\* t * node.secondarySpeed * 1.3 + node.secondaryPhase
WobbleAngleY(f, duration, speed, phase) ==
    ((Turn \div 10) * f * speed * 13) \div (duration * RandScale) + phase

\* the two motions without the base position
getNodePositionUncentred(node, f, duration) ==
    [x |-> (Cos(OrbitAngle(f, duration, node.orbitSpeed, node.orbitPhase))
               * node.orbitRadius) \div SinScale
           + (Cos(OrbitAngle(f, duration, node.secondarySpeed, node.secondaryPhase))
               * node.secondaryRadius) \div SinScale,
     y |-> (Sin(OrbitAngle(f, duration, node.orbitSpeed, node.orbitPhase))
               * node.orbitRadius) \div SinScale
           + (Sin(WobbleAngleY(f, duration, node.secondarySpeed, node.secondaryPhase))
               * node.secondaryRadius) \div SinScale]

getNodePosition(node, f, duration) ==
    LET primaryX == (Cos(OrbitAngle(f, duration, node.orbitSpeed, node.orbitPhase))
                        * node.orbitRadius) \div SinScale
        primaryY == (Sin(OrbitAngle(f, duration, node.orbitSpeed, node.orbitPhase))
                        * node.orbitRadius) \div SinScale
        secondaryX == (Cos(OrbitAngle(f, duration, node.secondarySpeed, node.secondaryPhase))
                        * node.secondaryRadius) \div SinScale
        secondaryY == (Sin(WobbleAngleY(f, duration, node.secondarySpeed, node.secondaryPhase))
                        * node.secondaryRadius) \div SinScale
    IN  [x |-> node.baseX + primaryX + secondaryX,
         y |-> node.baseY + primaryY + secondaryY]

\* Math.sqrt((x2 - x1) ** 2 + (y2 - y1) ** 2)
getDistance(x1, y1, x2, y2) ==
    Sqrt((x2 - x1) * (x2 - x1) + (y2 - y1) * (y2 - y1))

(***************************************************************************)
(* The node generator inside React.useMemo.                                *)
(***************************************************************************)
Padding == 200
DefaultConnectionDistance == 300
DefaultNodeSize == 8

Colors(c) == <<c.accentColor, c.secondaryColor, "#0047AB", "#6495ED", "#00308F">>

GenerateNode(i, c) ==
    LET seed == i * 1000
    IN  [id |-> i,
         baseX |-> Padding * PosScale
                    + (seededRandom(seed + 1) * (c.width - Padding * 2) * PosScale) \div RandScale,
         baseY |-> Padding * PosScale
                    + (seededRandom(seed + 2) * (c.height - Padding * 2) * PosScale) \div RandScale,
         orbitRadius |-> 30 * PosScale + (seededRandom(seed + 3) * 100 * PosScale) \div RandScale,
         orbitSpeed |-> RandScale \div 2 + (seededRandom(seed + 4) * 15) \div 10,
         orbitPhase |-> (seededRandom(seed + 5) * Turn) \div RandScale,
         secondaryRadius |-> 10 * PosScale + (seededRandom(seed + 6) * 30 * PosScale) \div RandScale,
         secondarySpeed |-> 2 * RandScale + seededRandom(seed + 7) * 3,
         secondaryPhase |-> (seededRandom(seed + 8) * Turn) \div RandScale,
         size |-> c.nodeSize * ((6 * RandScale) \div 10 + (seededRandom(seed + 9) * 8) \div 10),
         color |-> Colors(c)[((seededRandom(seed + 10) * 5) \div RandScale) + 1]]

\* for (let i = 0; i < nodeCount; i++) result.push(...)
NodeLoopOffByOne(c) == [k \in 1..(c.nodeCount + 1) |-> GenerateNode(k - 1, c)]

GenerateNodes(c) == [k \in 1..c.nodeCount |-> GenerateNode(k - 1, c)]

\* the dependency list without the canvas size
MemoDepsWithoutCanvas(c) ==
    <<c.nodeCount, c.nodeSize, c.accentColor, c.secondaryColor>>

\* the dependency list of the useMemo call
MemoDeps(c) ==
    <<c.nodeCount, c.width, c.height, c.nodeSize, c.accentColor, c.secondaryColor>>

\* React.useMemo: recompute when no value is cached or a dependency changed
UseMemo(cell, c) ==
    IF cell # None /\ cell.deps = MemoDeps(c)
    THEN cell
    ELSE [deps |-> MemoDeps(c), nodes |-> GenerateNodes(c)]

(***************************************************************************)
(* The connection loop.  A loop state is the pair of loop counters, the    *)
(* list built so far, the pairs examined so far and whether an access      *)
(* outside `positions` threw.  Indices are the code's (from 0).            *)
(***************************************************************************)
LoopStart == [i |-> 0, j |-> 1, connections |-> <<>>, examined |-> <<>>, error |-> FALSE]

\* i < nodes.length fails: the outer loop has ended (or the render threw)
LoopDone(st, n) == st.error \/ st.i >= n

\* j < nodes.length fails: the inner loop has ended
InnerDone(st, n) == st.j >= n

\* if (dist < connectionDistance)
WithinThresholdInclusive(dist, connectionDistance) == dist <= connectionDistance

WithinThreshold(dist, connectionDistance) == dist < connectionDistance

\* normalizedDist = dist / connectionDistance; Math.pow(1 - normalizedDist, 2) * 0.8
FalloffLinear(dist, connectionDistance) ==
    ((NormScale - (dist * NormScale) \div connectionDistance) * NormScale * 8) \div 10

Falloff(dist, connectionDistance) ==
    IF connectionDistance = 0 THEN NaN
    ELSE LET normalizedDist == (dist * NormScale) \div connectionDistance
             opacity == (NormScale - normalizedDist) * (NormScale - normalizedDist)
         IN  (opacity * 8) \div 10

\* the inner loop restarted at j = 0
OuterAdvanceFromZero(st) == [st EXCEPT !.i = st.i + 1, !.j = 0]

\* i++ at the end of the outer body, and j = i + 1 at the start of the next
OuterAdvance(st) == [st EXCEPT !.i = st.i + 1, !.j = st.i + 2]

\* one pass of the inner loop body for the pair (i, j)
ExaminePair(st, pos, connectionDistance) ==
    IF ~(st.i + 1 \in DOMAIN pos /\ st.j + 1 \in DOMAIN pos)
    THEN [st EXCEPT !.error = TRUE]
    ELSE LET dist == getDistance(pos[st.i + 1].x, pos[st.i + 1].y,
                                 pos[st.j + 1].x, pos[st.j + 1].y)
             seen == [st EXCEPT !.examined = Append(st.examined, <<st.i, st.j>>),
                                !.j = st.j + 1]
         IN  IF WithinThreshold(dist, connectionDistance)
             THEN [seen EXCEPT !.connections =
                       Append(st.connections,
                              [from |-> st.i, to |-> st.j,
                               opacity |-> Falloff(dist, connectionDistance)])]
             ELSE seen

LoopStep(st, pos, n, connectionDistance) ==
    IF InnerDone(st, n) THEN OuterAdvance(st)
    ELSE ExaminePair(st, pos, connectionDistance)

RECURSIVE RunLoop(_, _, _, _)
RunLoop(st, pos, n, connectionDistance) ==
    IF LoopDone(st, n) THEN st
    ELSE RunLoop(LoopStep(st, pos, n, connectionDistance), pos, n, connectionDistance)

(***************************************************************************)
(* KnowledgeGraph: one render of the component by worker w at frame f.     *)
(***************************************************************************)
\* positions = nodes.map(node => getNodePosition(node, frame, durationInFrames))
DriftingPositions(w, nodes, f, duration) ==
    [k \in 1..Len(nodes) |->
        IF k \in DOMAIN positions[w]
        THEN [x |-> positions[w][k].x + PosScale, y |-> positions[w][k].y]
        ELSE getNodePosition(nodes[k], f, duration)]

CurrentPositions(w, nodes, f, duration) ==
    [k \in 1..Len(nodes) |-> getNodePosition(nodes[k], f, duration)]

Output(pos, conns) == [positions |-> pos, connections |-> conns]

Render(w, f) ==
    LET cell == UseMemo(memo[w], cfg)
        pos == CurrentPositions(w, cell.nodes, f, cfg.durationInFrames)
        loop == RunLoop(LoopStart, pos, Len(cell.nodes),
                        cfg.connectionDistance * PosScale)
    IN  /\ memo' = [memo EXCEPT ![w] = cell]
        /\ frame' = [frame EXCEPT ![w] = f]
        /\ positions' = [positions EXCEPT ![w] = pos]
        /\ connections' = [connections EXCEPT ![w] = loop.connections]
        /\ renderError' = [renderError EXCEPT ![w] = loop.error]
        /\ first' = IF first[f] = None
                    THEN [first EXCEPT ![f] = Output(pos, loop.connections)]
                    ELSE first
        /\ UNCHANGED <<cfg, edgeVars, itpVars, fuiVars, arcVars, cliVars, imgVars, rndVars, kfVars, rollVars, pgVars>>

\* a worker is restarted: a fresh component instance with an empty memo cell
Remount(w) ==
    /\ memo[w] # None
    /\ memo' = [memo EXCEPT ![w] = None]
    /\ UNCHANGED <<cfg, frame, positions, connections, renderError, first>>
    /\ UNCHANGED <<edgeVars, itpVars, fuiVars, arcVars, cliVars, imgVars, rndVars, kfVars, rollVars, pgVars>>

Configs ==
    [nodeCount : 0..MaxNodes,
     connectionDistance : {0, DefaultConnectionDistance},
     nodeSize : {DefaultNodeSize},
     accentColor : {"#00BFFF"},
     secondaryColor : {"#FF6B6B"},
     width : {1920},
     height : {1080},
     durationInFrames : 1..MaxDuration]

Frames == 0..(cfg.durationInFrames - 1)

KgInit ==
    /\ cfg \in Configs
    /\ memo = [w \in Workers |-> None]
    /\ frame = [w \in Workers |-> NoFrame]
    /\ positions = [w \in Workers |-> <<>>]
    /\ connections = [w \in Workers |-> <<>>]
    /\ renderError = [w \in Workers |-> FALSE]
    /\ first = [f \in 0..(cfg.durationInFrames - 1) |-> None]

\* the component is not mounted
KgIdle ==
    /\ cfg = None
    /\ memo = None
    /\ frame = None
    /\ positions = None
    /\ connections = None
    /\ renderError = None
    /\ first = None

(***************************************************************************)
(* The connection loop on its own, one loop step at a time, on positions   *)
(* and a threshold drawn from a small grid (position units).               *)
(***************************************************************************)
EdgePoints ==
    { [x |-> 0, y |-> 0], [x |-> 30, y |-> 40], [x |-> 0, y |-> 50], [x |-> 30, y |-> 0] }

EdgeThresholds == {0, 5 * PosScale, 8 * PosScale}

EdgeInit ==
    /\ edgePositions \in UNION { [1..n -> EdgePoints] : n \in 0..MaxEdgeNodes }
    /\ edgeThreshold \in EdgeThresholds
    /\ edgeLoop = LoopStart
    /\ edgeCurves = [drawn |-> FALSE, elements |-> <<>>]

EdgeIdle ==
    /\ edgePositions = None
    /\ edgeThreshold = None
    /\ edgeLoop = None
    /\ edgeCurves = None

EdgeN == Len(edgePositions)

\* the body of the inner loop runs for the pair (i, j)
EdgeExamine ==
    /\ ~LoopDone(edgeLoop, EdgeN)
    /\ ~InnerDone(edgeLoop, EdgeN)
    /\ edgeLoop' = ExaminePair(edgeLoop, edgePositions, edgeThreshold)
    /\ UNCHANGED <<edgePositions, edgeThreshold, edgeCurves, kgVars, itpVars, fuiVars, arcVars, cliVars, imgVars, rndVars, kfVars, rollVars, pgVars>>

\* the inner loop has ended: the outer loop goes on to the next i
EdgeAdvance ==
    /\ ~LoopDone(edgeLoop, EdgeN)
    /\ InnerDone(edgeLoop, EdgeN)
    /\ edgeLoop' = OuterAdvance(edgeLoop)
    /\ UNCHANGED <<edgePositions, edgeThreshold, edgeCurves, kgVars, itpVars, fuiVars, arcVars, cliVars, imgVars, rndVars, kfVars, rollVars, pgVars>>

(***************************************************************************)
(* interpolate and Easing of the remotion library, as the compositions     *)
(* call them.  An input is in tenths of a frame (TimeScale), the           *)
(* normalised position in a segment is in ten-thousandths (EaseScale), and *)
(* an output is in the unit of the outputRange handed in.                  *)
(***************************************************************************)
TimeScale == 10^1
EaseScale == 10^4
OutScale == 10^4
BezRes == 10^2

InterpolateError == [throws |-> "interpolate"]

\* inputRange and outputRange of equal length >= 2, inputRange strictly increasing
ValidRanges(inputRange, outputRange) ==
    /\ Len(inputRange) = Len(outputRange)
    /\ Len(inputRange) >= 2
    /\ \A k \in 1..(Len(inputRange) - 1) : inputRange[k] < inputRange[k + 1]

\* Easing.bezier(0.42, 0, 1, 1) at parameter s / BezRes: x scaled by
\* 100 * BezRes^3 and y by BezRes^3
BezX(s) ==
    3 * (BezRes - s) * (BezRes - s) * s * 42 + 3 * (BezRes - s) * s * s * 100 + s * s * s * 100

BezY(s) == 3 * (BezRes - s) * s * s + s * s * s

\* Easing.ease: the curve's y at the parameter whose x is the argument
EasingEase(x) ==
    IF x = 0 THEN 0
    ELSE IF x = EaseScale THEN EaseScale
    ELSE LET s == CHOOSE q \in 0..BezRes :
                      /\ BezX(q) <= x * 10^4
                      /\ (q = BezRes \/ BezX(q + 1) > x * 10^4)
         IN  BezY(s) \div 10^2

\* Easing.inOut(Easing.ease)
EasingInOutEase(t) ==
    IF 2 * t < EaseScale
    THEN EasingEase(t * 2) \div 2
    ELSE EaseScale - EasingEase((EaseScale - t) * 2) \div 2

ApplyEasing(easing, t) ==
    IF easing = "inOutEase" THEN EasingInOutEase(t) ELSE t

\* the segment of the table the input falls in (index of its left end)
RECURSIVE FindRange(_, _, _)
FindRange(input, inputRange, i) ==
    IF i < Len(inputRange) - 1 /\ inputRange[i + 1] < input
    THEN FindRange(input, inputRange, i + 1)
    ELSE i

InterpolateSegment(input, inMin, inMax, outMin, outMax, options) ==
    LET left == IF input < inMin /\ options.extrapolateLeft = "clamp" THEN inMin ELSE input
        result == IF left > inMax /\ options.extrapolateRight = "clamp" THEN inMax ELSE left
        t == ((result - inMin) * EaseScale) \div (inMax - inMin)
    IN  IF outMin = outMax THEN outMin
        ELSE (ApplyEasing(options.easing, t) * (outMax - outMin)) \div EaseScale + outMin

Interpolate(input, inputRange, outputRange, options) ==
    IF ~ValidRanges(inputRange, outputRange) THEN InterpolateError
    ELSE LET k == FindRange(input, inputRange, 1)
         IN  InterpolateSegment(input, inputRange[k], inputRange[k + 1],
                                outputRange[k], outputRange[k + 1], options)

ClampRight == [extrapolateLeft |-> "extend", extrapolateRight |-> "clamp", easing |-> "linear"]
ClampBoth == [extrapolateLeft |-> "clamp", extrapolateRight |-> "clamp", easing |-> "linear"]
ClampRightInOutEase ==
    [extrapolateLeft |-> "extend", extrapolateRight |-> "clamp", easing |-> "inOutEase"]
NoClamp == [extrapolateLeft |-> "extend", extrapolateRight |-> "extend", easing |-> "linear"]

\* a keyframe table: the second and third argument of an interpolate call
Table(inputRange, outputRange) == [inputRange |-> inputRange, outputRange |-> outputRange]

\* interpolate(input, table.inputRange, table.outputRange, options)
InterpolateTable(input, table, options) ==
    Interpolate(input, table.inputRange, table.outputRange, options)

(***************************************************************************)
(* The animated values of FuiPanorama, at frame f with video config c.     *)
(***************************************************************************)
SCENE_WIDTH == 4000

\* Math.sin of an argument in hundredths of a radian (PI as 355 / 113)
SinRad(x) == Sin((x * 180 * 113) \div (355 * 100))

\* the keyframe tables of FuiPanorama: frames in tenths, outputs as used
\* the output range running to the far end of the scene
panOffsetTableWholeScene(c) ==
    Table(<<0, c.durationInFrames * TimeScale>>, <<0, SCENE_WIDTH>>)

panOffsetTable(c) == Table(<<0, c.durationInFrames * TimeScale>>, <<0, SCENE_WIDTH - c.width>>)

progressTable(T) == Table(<<0, T * TimeScale>>, <<0, OutScale>>)

gauge1Table(T) == Table(<<0, T * 7>>, <<2000, 8500>>)

\* the input range running backwards
gauge2TableReversed(T) == Table(<<T * 6, T * 1>>, <<1000, 7000>>)

gauge2Table(T) == Table(<<T * 1, T * 6>>, <<1000, 7000>>)

gauge3Table(T) == Table(<<T * 2, T * 8>>, <<3000, 9500>>)

gauge4Table(T) == Table(<<0, T * 5>>, <<4000, 6500>>)

panOffsetReversed(f, c) ==
    (Interpolate(f * TimeScale, <<0, c.durationInFrames * TimeScale>>,
                 <<SCENE_WIDTH - c.width, 0>>, ClampRightInOutEase) * c.panSpeed) \div 10

\* panSpeed is in tenths
panOffset(f, c) ==
    (InterpolateTable(f * TimeScale, panOffsetTable(c), ClampRightInOutEase) * c.panSpeed)
        \div 10

panoramaProgressUnclamped(f, T) ==
    Interpolate(f * TimeScale, <<0, T * TimeScale>>, <<0, OutScale>>, NoClamp)

panoramaProgress(f, T) == InterpolateTable(f * TimeScale, progressTable(T), ClampRight)

gauge1ProgressUnclamped(f, T) ==
    Interpolate(f * TimeScale, <<0, T * 7>>, <<2000, 8500>>, NoClamp)

gauge1Progress(f, T) == InterpolateTable(f * TimeScale, gauge1Table(T), ClampRight)

gauge2Progress(f, T) == InterpolateTable(f * TimeScale, gauge2Table(T), ClampBoth)

gauge3Progress(f, T) == InterpolateTable(f * TimeScale, gauge3Table(T), ClampBoth)

gauge4Progress(f, T) == InterpolateTable(f * TimeScale, gauge4Table(T), ClampRight)

\* 0.5 + 0.3 * Math.sin(frame * 0.05)
gauge5Progress(f) == OutScale \div 2 + (3 * SinRad(f * 5)) \div 10

FuiPanorama(f, c) ==
    LET T == c.durationInFrames
    IN  [comp |-> "FuiPanorama",
         maxPan |-> SCENE_WIDTH - c.width,
         panOffset |-> panOffset(f, c),
         progress |-> panoramaProgress(f, T),
         gauge1 |-> gauge1Progress(f, T),
         gauge2 |-> gauge2Progress(f, T),
         gauge3 |-> gauge3Progress(f, T),
         gauge4 |-> gauge4Progress(f, T),
         gauge5 |-> gauge5Progress(f),
         \* the progress prop of every ArcGauge, CircleGauge and BarIndicator
         gaugeProps |-> {gauge1Progress(f, T), gauge2Progress(f, T), gauge3Progress(f, T),
                         gauge4Progress(f, T), gauge5Progress(f),
                         OutScale - gauge4Progress(f, T), OutScale - gauge2Progress(f, T),
                         (45 * OutScale) \div 100, (55 * OutScale) \div 100}]

(***************************************************************************)
(* The animated values of FuiClock.                                        *)
(***************************************************************************)
clockProgressTable(T) == Table(<<0, T * TimeScale>>, <<0, OutScale>>)

clockPulseTable == Table(<<0, 30 * TimeScale, 60 * TimeScale>>, <<7000, OutScale, 7000>>)

clockProgress(f, T) == InterpolateTable(f * TimeScale, clockProgressTable(T), ClampRight)

\* interpolate(frame % 60, [0, 30, 60], [0.7, 1, 0.7], clamp right)
clockPulse(f) == InterpolateTable((f % 60) * TimeScale, clockPulseTable, ClampRight)

\* progress={0.3 + progress * 0.4}
clockArcProgress(f, T) == (3 * OutScale) \div 10 + (clockProgress(f, T) * 4) \div 10

FuiClock(f, c) ==
    [comp |-> "FuiClock",
     progress |-> clockProgress(f, c.durationInFrames),
     pulse |-> clockPulse(f),
     gaugeProps |-> {clockArcProgress(f, c.durationInFrames)}]

(***************************************************************************)
(* ArcGauge: the path geometry of the two gauge components.  Angles are    *)
(* whole degrees, progress is in ten-thousandths, points are in tenths of  *)
(* a pixel.  A path "M start A r r 0 flag 1 end" is the record of its      *)
(* parameters.                                                             *)
(***************************************************************************)
\* the angle converted without the quarter turn
polarToCartesianUnrotated(g, angle, r) ==
    [x |-> g.cx * PosScale + (r * PosScale * Cos(angle)) \div SinScale,
     y |-> g.cy * PosScale + (r * PosScale * Sin(angle)) \div SinScale]

\* rad = (angle - 90) * Math.PI / 180; (cx + r cos(rad), cy + r sin(rad))
polarToCartesian(g, angle, r) ==
    [x |-> g.cx * PosScale + (r * PosScale * Cos(angle - 90)) \div SinScale,
     y |-> g.cy * PosScale + (r * PosScale * Sin(angle - 90)) \div SinScale]

ArcPath(from, radius, flag, to) ==
    [from |-> from, radius |-> radius, largeArc |-> flag, sweep |-> 1, to |-> to]

ArcGeometry(g, largeArc, progressLargeArc) ==
    LET start == polarToCartesian(g, g.startAngle, g.radius)
        end == polarToCartesian(g, g.endAngle, g.radius)
        progressAngle == g.startAngle + ((g.endAngle - g.startAngle) * g.progress) \div OutScale
        progressEnd == polarToCartesian(g, progressAngle, g.radius)
    IN  [start |-> start, end |-> end,
         progressAngle |-> progressAngle, progressEnd |-> progressEnd,
         largeArc |-> largeArc, progressLargeArc |-> progressLargeArc,
         bgPath |-> ArcPath(start, g.radius, largeArc, end),
         progressPath |-> ArcPath(start, g.radius, progressLargeArc, progressEnd)]

\* ---- tick marks.  A tick angle is in hundredths of a degree (AngScale),
\* a tick opacity in ten-thousandths (OutScale).
AngScale == 10^2

\* startAngle + (endAngle - startAngle) * (i / tickCount); 0 / 0 is NaN
TickAngle(g, i, tickCount) ==
    IF tickCount = 0 THEN NaN
    ELSE g.startAngle * AngScale + ((g.endAngle - g.startAngle) * AngScale * i) \div tickCount

\* polarToCartesian at a tick angle, taken at the whole degree below it
TickPoint(g, i, tickCount, r) ==
    IF tickCount = 0 THEN [x |-> NaN, y |-> NaN]
    ELSE polarToCartesian(g, TickAngle(g, i, tickCount) \div AngScale, r)

\* every tick's activity test reads i / tickCount < progress
TickIsActiveStrict(g, i, tickCount) ==
    IF tickCount = 0 THEN FALSE ELSE i * OutScale < g.progress * tickCount

\* isActive = (i / tickCount) <= progress; NaN <= progress is false
TickIsActive(g, i, tickCount) ==
    IF tickCount = 0 THEN FALSE ELSE i * OutScale <= g.progress * tickCount

\* 0.8 + 0.2 * Math.sin((pulsePhase + i * 0.5) * 0.1) if active,
\* else 0.4 for a major tick and 0.2 for a minor one
PulseOpacity(isActive, isMajor, pulsePhase, i) ==
    IF isActive THEN (8 * OutScale) \div 10 + (2 * SinRad((2 * pulsePhase + i) * 5)) \div 10
    ELSE IF isMajor THEN (4 * OutScale) \div 10 ELSE (2 * OutScale) \div 10

\* the body of FuiPanorama's tick loop
PanoramaTick(g, i) ==
    LET angle == TickAngle(g, i, g.tickCount)
        isMajor == i % 3 = 0
        isActive == TickIsActive(g, i, g.tickCount)
    IN  [key |-> i, angle |-> angle, isMajor |-> isMajor, isActive |-> isActive,
         innerPoint |-> TickPoint(g, i, g.tickCount, g.radius - (IF isMajor THEN 12 ELSE 6)),
         outerPoint |-> TickPoint(g, i, g.tickCount, g.radius + 2),
         strokeWidth |-> IF isMajor THEN 2 ELSE 1,
         opacity |-> PulseOpacity(isActive, isMajor, g.pulsePhase, i)]

\* the body of FuiClock's tick loop
ClockTick(g, i, tickCount) ==
    LET angle == TickAngle(g, i, tickCount)
        isMajor == i % 3 = 0
    IN  [key |-> i, angle |-> angle, isMajor |-> isMajor,
         innerPoint |-> TickPoint(g, i, tickCount, g.radius),
         outerPoint |-> TickPoint(g, i, tickCount, g.radius + (IF isMajor THEN 15 ELSE 8)),
         strokeWidth |-> IF isMajor THEN 2 ELSE 1,
         opacity |-> IF isMajor THEN (8 * OutScale) \div 10 ELSE (4 * OutScale) \div 10]

\* the loop stopping one tick short: i < tickCount
RECURSIVE PanoramaTickLoopShort(_, _, _)
PanoramaTickLoopShort(g, i, ticks) ==
    IF i < g.tickCount THEN PanoramaTickLoopShort(g, i + 1, Append(ticks, PanoramaTick(g, i)))
    ELSE ticks

\* for (let i = 0; i <= tickCount; i++) ticks.push(...)
RECURSIVE PanoramaTickLoop(_, _, _)
PanoramaTickLoop(g, i, ticks) ==
    IF i <= g.tickCount THEN PanoramaTickLoop(g, i + 1, Append(ticks, PanoramaTick(g, i)))
    ELSE ticks

\* const ticks = []; if (showTicks) { for ... }
PanoramaTicks(g) == IF g.showTicks THEN PanoramaTickLoop(g, 0, <<>>) ELSE <<>>

\* the loop stopping one tick short: i < tickCount
RECURSIVE ClockTickLoopShort(_, _, _, _)
ClockTickLoopShort(g, i, tickCount, ticks) ==
    IF i < tickCount
    THEN ClockTickLoopShort(g, i + 1, tickCount, Append(ticks, ClockTick(g, i, tickCount)))
    ELSE ticks

\* for (let i = 0; i <= tickCount; i++) ticks.push(...)
RECURSIVE ClockTickLoop(_, _, _, _)
ClockTickLoop(g, i, tickCount, ticks) ==
    IF i <= tickCount
    THEN ClockTickLoop(g, i + 1, tickCount, Append(ticks, ClockTick(g, i, tickCount)))
    ELSE ticks

\* const ticks = []; const tickCount = 12; for ...
ClockTicks(g) == ClockTickLoop(g, 0, 12, <<>>)

\* the progress flag taken from the background flag
PanoramaArcGaugeSharedFlag(g) ==
    LET largeArc == IF g.endAngle - g.startAngle > 180 THEN 1 ELSE 0
    IN  ArcGeometry(g, largeArc, largeArc) @@ [ticks |-> PanoramaTicks(g)]

\* ArcGauge of FuiPanorama
PanoramaArcGauge(g) ==
    LET largeArc == IF g.endAngle - g.startAngle > 180 THEN 1 ELSE 0
        progressLargeArc ==
            IF (g.endAngle - g.startAngle) * g.progress > 180 * OutScale THEN 1 ELSE 0
    IN  ArcGeometry(g, largeArc, progressLargeArc) @@ [ticks |-> PanoramaTicks(g)]

\* ArcGauge of FuiClock
ClockArcGauge(g) ==
    LET largeArc == IF g.endAngle - g.startAngle > 180 THEN 1 ELSE 0
        progressLargeArc ==
            IF (g.endAngle - g.startAngle) * g.progress > 180 * OutScale THEN 1 ELSE 0
    IN  ArcGeometry(g, largeArc, progressLargeArc) @@ [ticks |-> ClockTicks(g)]

(***************************************************************************)
(* The progress interpolation of the two instrument panels evaluated on    *)
(* any integer input, negative ones included.                              *)
(***************************************************************************)
ItpDurations == {1, 2, 100}

ItpFrames == (0 - ItpMargin)..(100 + ItpMargin)

ItpInit ==
    /\ itpFrame \in ItpFrames
    /\ itpDuration \in ItpDurations
    /\ itpOut = None

ItpIdle ==
    /\ itpFrame = None
    /\ itpDuration = None
    /\ itpOut = None

EvalPanoramaProgress ==
    /\ itpOut = None
    /\ itpOut' = [of |-> "FuiPanorama", value |-> panoramaProgress(itpFrame, itpDuration)]
    /\ UNCHANGED <<itpFrame, itpDuration, kgVars, edgeVars, fuiVars, arcVars, cliVars, imgVars, rndVars, kfVars, rollVars, pgVars>>

EvalClockProgress ==
    /\ itpOut = None
    /\ itpOut' = [of |-> "FuiClock", value |-> clockProgress(itpFrame, itpDuration)]
    /\ UNCHANGED <<itpFrame, itpDuration, kgVars, edgeVars, fuiVars, arcVars, cliVars, imgVars, rndVars, kfVars, rollVars, pgVars>>

(***************************************************************************)
(* FuiPanorama and FuiClock played back: frame 0, then each next frame,    *)
(* also past durationInFrames, with a rewind to frame 0 at any time.       *)
(***************************************************************************)
FuiDurations == {1, 2, 7, 30, 90}

FuiConfigs ==
    [comp : {"FuiPanorama"}, durationInFrames : FuiDurations,
     width : {1080, 1920, SCENE_WIDTH, 4096}, panSpeed : {0, 5, 10, 20}]
    \cup
    [comp : {"FuiClock"}, durationInFrames : FuiDurations,
     width : {1920}, panSpeed : {10}]

FuiInit ==
    /\ fuiCfg \in FuiConfigs
    /\ fuiFrame = NoFrame
    /\ fuiOut = None

FuiIdle ==
    /\ fuiCfg = None
    /\ fuiFrame = None
    /\ fuiOut = None

NextFrame == fuiFrame + 1

RenderPanorama ==
    /\ fuiCfg.comp = "FuiPanorama"
    /\ NextFrame <= MaxFuiFrame
    /\ fuiFrame' = NextFrame
    /\ fuiOut' = FuiPanorama(NextFrame, fuiCfg)
    /\ UNCHANGED <<fuiCfg, kgVars, edgeVars, itpVars, arcVars, cliVars, imgVars, rndVars, kfVars, rollVars, pgVars>>

RenderClock ==
    /\ fuiCfg.comp = "FuiClock"
    /\ NextFrame <= MaxFuiFrame
    /\ fuiFrame' = NextFrame
    /\ fuiOut' = FuiClock(NextFrame, fuiCfg)
    /\ UNCHANGED <<fuiCfg, kgVars, edgeVars, itpVars, arcVars, cliVars, imgVars, rndVars, kfVars, rollVars, pgVars>>

Rewind ==
    /\ fuiFrame > 0
    /\ fuiFrame' = 0
    /\ fuiOut' = IF fuiCfg.comp = "FuiPanorama"
                 THEN FuiPanorama(0, fuiCfg) ELSE FuiClock(0, fuiCfg)
    /\ UNCHANGED <<fuiCfg, kgVars, edgeVars, itpVars, arcVars, cliVars, imgVars, rndVars, kfVars, rollVars, pgVars>>

(***************************************************************************)
(* ArcGauge evaluated on props from a grid: the spans the compositions     *)
(* use, spans of 200, 90 and 0 degrees, and progress in steps.             *)
(***************************************************************************)
ArcSpans ==
    { <<-150, 30>>, <<-180, 0>>, <<-135, 135>>, <<0, 180>>, <<-120, 60>>,
      <<-160, 160>>, <<-150, -30>>, <<0, 200>>, <<0, 90>>, <<45, 45>> }

ArcProps ==
    { [cx |-> 200, cy |-> 300, radius |-> 150,
       startAngle |-> span[1], endAngle |-> span[2],
       progress |-> (k * OutScale) \div ArcSteps] :
      span \in ArcSpans, k \in 0..ArcSteps }

\* tickCount: the values the panorama passes (15, 16, 18, 20, 24), the
\* default 12, and 0, 1, 2, 7
TickCounts == {0, 1, 2, 7, 12, 15, 16, 18, 20, 24}

\* pulsePhase, a multiple of the frame
PulsePhases == {0, 31, 94}

\* the props of FuiPanorama's ArcGauge
PanoramaArcProps ==
    { g @@ [tickCount |-> tc, showTicks |-> st, pulsePhase |-> ph] :
      g \in ArcProps, tc \in TickCounts, st \in BOOLEAN, ph \in PulsePhases }

ArcInit ==
    /\ arcImpl \in {"FuiPanorama", "FuiClock"}
    /\ arcIn \in IF arcImpl = "FuiPanorama" THEN PanoramaArcProps ELSE ArcProps
    /\ arcOut = None

ArcIdle ==
    /\ arcImpl = None
    /\ arcIn = None
    /\ arcOut = None

RenderPanoramaArc ==
    /\ arcImpl = "FuiPanorama"
    /\ arcOut = None
    /\ arcOut' = PanoramaArcGauge(arcIn)
    /\ UNCHANGED <<arcImpl, arcIn, kgVars, edgeVars, itpVars, fuiVars, cliVars, imgVars, rndVars, kfVars, rollVars, pgVars>>

RenderClockArc ==
    /\ arcImpl = "FuiClock"
    /\ arcOut = None
    /\ arcOut' = ClockArcGauge(arcIn)
    /\ UNCHANGED <<arcImpl, arcIn, kgVars, edgeVars, itpVars, fuiVars, cliVars, imgVars, rndVars, kfVars, rollVars, pgVars>>

(***************************************************************************)
(* render.mjs: the command line of the renderer.  The arguments are a      *)
(* sequence of tokens; the script runs from its first line to an exit or   *)
(* to the blocking call of the encoder, which then succeeds or fails.      *)
(***************************************************************************)
\* args[index + 1] past the end of the array
Undefined == "<undefined>"
\* the default of --composition and --image
Null == "<null>"

\* a number of the script: NaN, or a value
Num(v) == [nan |-> FALSE, v |-> v]
NotANumber == [nan |-> TRUE, v |-> 0]

\* durations are in tenths of a second
DurScale == 10^1

\* args.indexOf(token) + 1: the position of the first occurrence, or 0
RECURSIVE IndexFrom(_, _, _)
IndexFrom(args, token, k) ==
    IF k > Len(args) THEN 0
    ELSE IF args[k] = token THEN k
    ELSE IndexFrom(args, token, k + 1)

\* getArg: the token after --name, or the default without the flag
getArg(args, name, defaultValue) ==
    LET index == IndexFrom(args, name, 1)
    IN  IF index = 0 THEN defaultValue
        ELSE IF index + 1 > Len(args) THEN Undefined
        ELSE args[index + 1]

\* parseFloat on the tokens of the model, in tenths: the longest numeric
\* prefix, NaN if there is none
parseFloat(token) ==
    CASE token = "5" -> Num(5 * DurScale)
      [] token = "10" -> Num(10 * DurScale)
      [] token = "2.5" -> Num(25)
      [] token = "0" -> Num(0)
      [] token = "-2" -> Num(-2 * DurScale)
      [] OTHER -> NotANumber

\* parseInt(token, 10) on the tokens of the model: the longest integer
\* prefix, NaN if there is none
parseInt(token) ==
    CASE token = "30" -> Num(30)
      [] token = "60" -> Num(60)
      [] token = "24" -> Num(24)
      [] token = "29.97" -> Num(29)
      [] token = "0" -> Num(0)
      [] token = "-2" -> Num(-2)
      [] token = "5" -> Num(5)
      [] token = "10" -> Num(10)
      [] token = "2.5" -> Num(2)
      [] OTHER -> NotANumber

\* Math.round(duration * fps): half-way cases round up; NaN if either is NaN
RoundProduct(duration, fps) ==
    IF duration.nan \/ fps.nan THEN NotANumber
    ELSE Num((duration.v * fps.v + DurScale \div 2) \div DurScale)

validPresets ==
    <<"zoom-in", "zoom-out", "pan-left", "pan-right", "pan-up", "pan-down", "ken-burns">>

validCompositions == <<"ImageAnimator", "FuiClock">>

Includes(list, token) == \E k \in 1..Len(list) : list[k] = token

\* process.cwd()
Cwd == "/work"

\* isAbsolute(path)
isAbsolute(path) == path \in {"/data/photo.jpg", "/data/missing.jpg"}

\* resolve(process.cwd(), path) on the paths of the model
resolve(path) ==
    CASE isAbsolute(path) -> path
      [] path = "./photo.jpg" -> "/work/photo.jpg"
      [] path = "./missing.jpg" -> "/work/missing.jpg"
      [] path = "./output.mp4" -> "/work/output.mp4"
      [] path = "./out/video.mp4" -> "/work/out/video.mp4"
      [] OTHER -> "/work/<other>"

\* dirname(path) on the absolute paths of the model
dirname(path) ==
    CASE path = "/work/out/video.mp4" -> "/work/out"
      [] path \in {"/data/photo.jpg", "/data/missing.jpg"} -> "/data"
      [] OTHER -> Cwd

\* pathToFileURL(path).href on the absolute paths of the model
pathToFileURL(path) ==
    CASE path = "/work/photo.jpg" -> "file:///work/photo.jpg"
      [] path = "/data/photo.jpg" -> "file:///data/photo.jpg"
      [] path = "/work/missing.jpg" -> "file:///work/missing.jpg"
      [] path = "/data/missing.jpg" -> "file:///data/missing.jpg"
      [] OTHER -> "file:///work/<other>"

\* the files and directories existsSync finds when the script starts
ExistingPaths == {"/work", "/data", "/work/photo.jpg", "/data/photo.jpg"}

\* imageSrc.startsWith('http://') || 'https://' || 'file://'
IsUrl(imageSrc) ==
    imageSrc \in {"http://example.com/a.png", "https://example.com/a.png", "file:///gone.png"}

\* if (imageSrc): null, undefined and the empty string are falsy
Truthy(token) == token \notin {Null, Undefined, ""}

\* the script has not exited
NoExit == 0 - 1

\* inputProps = {}
EmptyProps == <<>>

\* process.exit(code)
Exit(code) == [exit |-> code, cmd |-> None]

\* the command handed to execSync
Invoke(composition, inputProps, durationInFrames) ==
    [exit |-> NoExit,
     cmd |-> [composition |-> composition, props |-> inputProps,
              durationInFrames |-> durationInFrames]]

\* if (imageSrc): the ImageAnimator branch
ImageBranch(args) == Truthy(getArg(args, "--image", Null))

\* the image source handed on as it was given
ResolveImageSrcAsGiven(imageSrc) == [found |-> TRUE, src |-> imageSrc]

\* resolvedImageSrc: a URL as it is; a path made absolute, which must exist,
\* as its file URL
ResolveImageSrc(imageSrc) ==
    IF IsUrl(imageSrc) THEN [found |-> TRUE, src |-> imageSrc]
    ELSE LET absolutePath == resolve(imageSrc)
         IN  IF absolutePath \notin ExistingPaths THEN [found |-> FALSE, src |-> imageSrc]
             ELSE [found |-> TRUE, src |-> pathToFileURL(absolutePath)]

\* the script from its first line to the end of the validation: an exit,
\* or the composition, props and frame count of the command
SelectAndValidate(args) ==
    LET composition == getArg(args, "--composition", Null)
        imageSrc == getArg(args, "--image", Null)
        preset == getArg(args, "--preset", "ken-burns")
        duration == parseFloat(getArg(args, "--duration", "5"))
        fps == parseInt(getArg(args, "--fps", "30"))
        durationInFrames == RoundProduct(duration, fps)
    IN  IF Includes(args, "--help") \/ Includes(args, "-h") THEN Exit(0)
        ELSE IF ImageBranch(args) THEN
            IF ~Includes(validPresets, preset) THEN Exit(1)
            ELSE LET resolved == ResolveImageSrc(imageSrc)
                 IN  IF ~resolved.found THEN Exit(1)
                     ELSE Invoke("ImageAnimator",
                                 [imageSrc |-> resolved.src, preset |-> preset],
                                 durationInFrames)
        ELSE IF composition = "FuiClock" \/ (~Truthy(composition) /\ ~Truthy(imageSrc)) THEN
            Invoke("FuiClock", [baseTime |-> 1100], durationInFrames)
        ELSE IF ~Truthy(composition) THEN Exit(1)
        ELSE IF ~Includes(validCompositions, composition) THEN Exit(1)
        ELSE Invoke(composition, EmptyProps, durationInFrames)

\* if (!existsSync(outputDir)) mkdirSync(outputDir, { recursive: true })
EnsureOutputDir(paths, outputPath) == paths \cup {dirname(resolve(outputPath))}

\* the output directory made before anything is validated
RunScriptMkdirFirst(args, paths) ==
    LET outputPath == getArg(args, "--output", "./output.mp4")
        run == SelectAndValidate(args)
    IN  [exit |-> run.exit,
         cmd |-> IF run.exit # NoExit THEN None
                 ELSE run.cmd @@ [output |-> resolve(outputPath)],
         paths |-> EnsureOutputDir(paths, outputPath)]

\* the script from its first line to process.exit or to execSync
RunScript(args, paths) ==
    LET outputPath == getArg(args, "--output", "./output.mp4")
        run == SelectAndValidate(args)
    IN  IF run.exit # NoExit THEN [exit |-> run.exit, cmd |-> None, paths |-> paths]
        ELSE [exit |-> NoExit,
              cmd |-> run.cmd @@ [output |-> resolve(outputPath)],
              paths |-> EnsureOutputDir(paths, outputPath)]

\* the ids of the compositions RemotionRoot registers
RegisteredCompositions == {"ImageAnimator", "FuiClock", "FuiPanorama", "KnowledgeGraph"}

\* every composition of Root.tsx is registered with fps={30}
CompositionFps == 30
\* defaultProps.preset of the ImageAnimator composition
DefaultPreset == "ken-burns"

\* the encoder renders the composition the command names: the props of the
\* command over the default props, the frame count of the command, the
\* frame rate of the composition
EncoderOutput(cmd) ==
    [composition |-> cmd.composition,
     preset |-> IF cmd.composition # "ImageAnimator" THEN Null
                ELSE IF "preset" \in DOMAIN cmd.props THEN cmd.props.preset
                ELSE DefaultPreset,
     durationInFrames |-> cmd.durationInFrames,
     fps |-> CompositionFps]

\* ---- the invocations of the model: each flag absent, given without a
\* value, or given with one of a few values
Segments(flag, values) == {<<>>, <<flag>>} \cup {<<flag, v>> : v \in values}

CliInvocations ==
    { c \o i \o p \o d \o f \o o \o h :
        c \in Segments("--composition",
                       {"ImageAnimator", "FuiClock", "FuiPanorama", "KnowledgeGraph", "Clock"}),
        i \in Segments("--image",
                       {"./photo.jpg", "./missing.jpg", "/data/photo.jpg",
                        "https://example.com/a.png", "file:///gone.png"}),
        p \in Segments("--preset", {"zoom-in", "sepia"}),
        d \in Segments("--duration", {"2.5", "0", "abc"}),
        f \in Segments("--fps", {"60", "0"}),
        o \in {<<>>, <<"--output", "./out/video.mp4">>},
        h \in {<<>>, <<"--help">>} }

CliInit ==
    /\ cliArgs \in CliInvocations
    /\ cliPc = "start"
    /\ cliExit = NoExit
    /\ cliCmd = None
    /\ cliVideo = None
    /\ cliPaths = ExistingPaths

CliIdle ==
    /\ cliArgs = None
    /\ cliPc = None
    /\ cliExit = NoExit
    /\ cliCmd = None
    /\ cliVideo = None
    /\ cliPaths = None

\* the script runs up to its exit or up to execSync
RunCli ==
    /\ cliPc = "start"
    /\ LET run == RunScript(cliArgs, cliPaths)
       IN  /\ cliExit' = run.exit
           /\ cliCmd' = run.cmd
           /\ cliPaths' = run.paths
           /\ cliPc' = IF run.exit = NoExit THEN "encoding" ELSE "exited"
    /\ UNCHANGED <<cliArgs, cliVideo>>
    /\ UNCHANGED <<kgVars, edgeVars, itpVars, fuiVars, arcVars, imgVars, rndVars, kfVars, rollVars, pgVars>>

\* execSync returns: the video is written and the script runs off its end.
\* The encoder writes a video only for a positive number of frames.
EncoderSucceeds ==
    /\ cliPc = "encoding"
    /\ ~cliCmd.durationInFrames.nan
    /\ cliCmd.durationInFrames.v > 0
    /\ cliVideo' = EncoderOutput(cliCmd)
    /\ cliExit' = 0
    /\ cliPc' = "exited"
    /\ UNCHANGED <<cliArgs, cliCmd, cliPaths>>
    /\ UNCHANGED <<kgVars, edgeVars, itpVars, fuiVars, arcVars, imgVars, rndVars, kfVars, rollVars, pgVars>>

\* execSync throws: catch, process.exit(1)
EncoderFails ==
    /\ cliPc = "encoding"
    /\ cliExit' = 1
    /\ cliPc' = "exited"
    /\ UNCHANGED <<cliArgs, cliCmd, cliVideo, cliPaths>>
    /\ UNCHANGED <<kgVars, edgeVars, itpVars, fuiVars, arcVars, imgVars, rndVars, kfVars, rollVars, pgVars>>

(***************************************************************************)
(* ImageAnimator: the transform of the image at a frame.  Scales and       *)
(* translations (per cent) are in thousandths (CfgScale).                  *)
(***************************************************************************)
CfgScale == 10^3

AnimationConfig(startScale, endScale, startX, endX, startY, endY) ==
    [startScale |-> startScale, endScale |-> endScale,
     startX |-> startX * CfgScale, endX |-> endX * CfgScale,
     startY |-> startY * CfgScale, endY |-> endY * CfgScale]

ANIMATION_CONFIGS ==
    [preset \in {"zoom-in", "zoom-out", "pan-left", "pan-right", "pan-up", "pan-down",
                 "ken-burns"} |->
        CASE preset = "zoom-in" -> AnimationConfig(1000, 1300, 0, 0, 0, 0)
          [] preset = "zoom-out" -> AnimationConfig(1300, 1000, 0, 0, 0, 0)
          [] preset = "pan-left" -> AnimationConfig(1200, 1200, 10, -10, 0, 0)
          [] preset = "pan-right" -> AnimationConfig(1200, 1200, -10, 10, 0, 0)
          [] preset = "pan-up" -> AnimationConfig(1200, 1200, 0, 0, 10, -10)
          [] preset = "pan-down" -> AnimationConfig(1200, 1200, 0, 0, -10, 10)
          [] preset = "ken-burns" -> AnimationConfig(1000, 1250, -5, 5, -3, 3)]

\* the three values extended past the last frame
ImageAnimatorUnclamped(preset, f, T) ==
    LET config == ANIMATION_CONFIGS[preset]
        at(from, to) == Interpolate(f * TimeScale, <<0, T * TimeScale>>, <<from, to>>, NoClamp)
    IN  [scale |-> at(config.startScale, config.endScale),
         translateX |-> at(config.startX, config.endX),
         translateY |-> at(config.startY, config.endY)]

\* the keyframe table of one value of the transform
imageTable(T, from, to) == Table(<<0, T * TimeScale>>, <<from, to>>)

\* scale, translateX and translateY of the transform
ImageAnimator(preset, f, T) ==
    LET config == ANIMATION_CONFIGS[preset]
        at(from, to) == InterpolateTable(f * TimeScale, imageTable(T, from, to), ClampRight)
    IN  [scale |-> at(config.startScale, config.endScale),
         translateX |-> at(config.startX, config.endX),
         translateY |-> at(config.startY, config.endY)]

\* durationInFrames of the composition: short ones and the 150 of Root.tsx
ImgDurations == {1, 2, 4, 150}

\* frames rendered past the last frame of the composition
ImgMargin == 2

ImgInit ==
    /\ imgPreset \in DOMAIN ANIMATION_CONFIGS
    /\ imgDuration \in ImgDurations
    /\ imgFrame = NoFrame
    /\ imgOut = None

ImgIdle ==
    /\ imgPreset = None
    /\ imgDuration = None
    /\ imgFrame = NoFrame
    /\ imgOut = None

\* one render of ImageAnimator at a frame
RenderImage(f) ==
    /\ imgFrame' = f
    /\ imgOut' = ImageAnimator(imgPreset, f, imgDuration)
    /\ UNCHANGED <<imgPreset, imgDuration>>
    /\ UNCHANGED <<kgVars, edgeVars, itpVars, fuiVars, arcVars, cliVars, rndVars, kfVars, rollVars, pgVars>>

(***************************************************************************)
(* RollingNumber of FuiPanorama: the number a DataBlock displays.  speed   *)
(* is in hundredths, the animated value before Math.floor in thousandths   *)
(* (RollScale); a string is a sequence of one-character strings.           *)
(***************************************************************************)
RollScale == 10^3

settlingTable == Table(<<0, 30 * TimeScale>>, <<10 * RollScale, 0>>)

\* the decimal digits of a natural number, most significant first
RECURSIVE DigitsOf(_)
DigitsOf(n) ==
    LET digit == <<"0", "1", "2", "3", "4", "5", "6", "7", "8", "9">>[(n % 10) + 1]
    IN  IF n < 10 THEN <<digit>> ELSE Append(DigitsOf(n \div 10), digit)

\* Number.prototype.toString of an integer
toString(n) == IF n < 0 THEN <<"-">> \o DigitsOf(0 - n) ELSE DigitsOf(n)

\* String.prototype.padStart(targetLength, padString) with a one-character pad
RECURSIVE PadStart(_, _, _)
PadStart(str, targetLength, padString) ==
    IF Len(str) >= targetLength THEN str
    ELSE PadStart(<<padString>> \o str, targetLength, padString)

\* String.prototype.slice(-count), count > 0: the last count characters
SliceLast(str, count) ==
    IF Len(str) <= count THEN str ELSE SubSeq(str, Len(str) - count + 1, Len(str))

\* the sign of the number kept by the slice
RollingNumberAbsolute(props, f) ==
    LET effectiveFrame == IF f - props.delay > 0 THEN f - props.delay ELSE 0
        cycleSpeed == props.speed * 2
        settling == InterpolateTable(effectiveFrame * TimeScale, settlingTable, ClampRight)
        noise == (SinRad(effectiveFrame * cycleSpeed) * settling) \div SinScale
        animatedValue ==
            (props.value * RollScale + effectiveFrame * props.speed * 3 + noise)
                \div RollScale
        shown == IF animatedValue < 0 THEN 0 - animatedValue ELSE animatedValue
    IN  [effectiveFrame |-> effectiveFrame, noise |-> noise,
         animatedValue |-> animatedValue,
         displayValue |-> SliceLast(PadStart(DigitsOf(shown), props.digits, "0"),
                                    props.digits)]

RollingNumber(props, f) ==
    LET effectiveFrame == IF f - props.delay > 0 THEN f - props.delay ELSE 0
        cycleSpeed == props.speed * 2
        settling == InterpolateTable(effectiveFrame * TimeScale, settlingTable, ClampRight)
        noise == (SinRad(effectiveFrame * cycleSpeed) * settling) \div SinScale
        animatedValue ==
            (props.value * RollScale + effectiveFrame * props.speed * 3 + noise)
                \div RollScale
    IN  [effectiveFrame |-> effectiveFrame, noise |-> noise,
         animatedValue |-> animatedValue,
         displayValue |-> SliceLast(PadStart(toString(animatedValue), props.digits, "0"),
                                    props.digits)]

\* the DataBlock elements of FuiPanorama: <<value, subValue, speed>>, a
\* subValue of -1 where the element has none
DataBlocks ==
    { <<127, 45, 120>>, <<432, 88, 80>>, <<100, 0 - 1, 50>>, <<255, 12, 150>>,
      <<72, 3, 30>>, <<456, 0 - 1, 200>>, <<891, 67, 180>>, <<99, 98, 40>>,
      <<32, 5, 60>>, <<789, 0 - 1, 110>>, <<645, 21, 140>>, <<1001, 0 - 1, 90>> }

\* the props of the RollingNumber elements of the DataBlocks: the value
\* with three digits, and the subValue with two digits at 1.5 times the speed
RollingNumbers ==
    { [value |-> b[1], digits |-> 3, speed |-> b[3], delay |-> 0] : b \in DataBlocks }
    \cup
    { [value |-> b[2], digits |-> 2, speed |-> (b[3] * 15) \div 10, delay |-> 0] :
        b \in { d \in DataBlocks : d[2] >= 0 } }

\* the numbers are rendered at the frames 0..MaxRollFrame
MaxRollFrame == 45

RollInit ==
    /\ rollProps \in RollingNumbers
    /\ rollFrame = NoFrame
    /\ rollOut = None

RollIdle ==
    /\ rollProps = None
    /\ rollFrame = NoFrame
    /\ rollOut = None

\* one render of the RollingNumber at a frame
RenderRollingNumber(f) ==
    /\ rollFrame' = f
    /\ rollOut' = RollingNumber(rollProps, f)
    /\ UNCHANGED rollProps
    /\ UNCHANGED <<kgVars, edgeVars, itpVars, fuiVars, arcVars, cliVars, imgVars, rndVars, kfVars, pgVars>>

(***************************************************************************)
(* The keyframe tables a composition hands to interpolate in one render,   *)
(* by the name of the value computed from them.                            *)
(***************************************************************************)
PanoramaKeyframes(c) ==
    [panOffset |-> panOffsetTable(c),
     progress |-> progressTable(c.durationInFrames),
     gauge1Progress |-> gauge1Table(c.durationInFrames),
     gauge2Progress |-> gauge2Table(c.durationInFrames),
     gauge3Progress |-> gauge3Table(c.durationInFrames),
     gauge4Progress |-> gauge4Table(c.durationInFrames),
     settling |-> settlingTable]

ClockKeyframes(T) == [pulse |-> clockPulseTable, progress |-> clockProgressTable(T)]

ImageKeyframes(preset, T) ==
    LET config == ANIMATION_CONFIGS[preset]
    IN  [scale |-> imageTable(T, config.startScale, config.endScale),
         translateX |-> imageTable(T, config.startX, config.endX),
         translateY |-> imageTable(T, config.startY, config.endY)]

\* durationInFrames ranges over 1..MaxTableDuration
MaxTableDuration == 40

KfInit ==
    /\ kfComposition = ""
    /\ kfDuration = 0
    /\ kfTables = <<>>

\* no composition is rendered for its tables
KfIdle ==
    /\ kfComposition = ""
    /\ kfDuration = 0
    /\ kfTables = None

RenderPanoramaTables(T, width) ==
    /\ kfComposition' = "FuiPanorama"
    /\ kfDuration' = T
    /\ kfTables' = PanoramaKeyframes([durationInFrames |-> T, width |-> width])
    /\ UNCHANGED <<kgVars, edgeVars, itpVars, fuiVars, arcVars, cliVars, imgVars, rndVars, rollVars, pgVars>>

RenderClockTables(T) ==
    /\ kfComposition' = "FuiClock"
    /\ kfDuration' = T
    /\ kfTables' = ClockKeyframes(T)
    /\ UNCHANGED <<kgVars, edgeVars, itpVars, fuiVars, arcVars, cliVars, imgVars, rndVars, rollVars, pgVars>>

RenderImageTables(T, preset) ==
    /\ kfComposition' = "ImageAnimator"
    /\ kfDuration' = T
    /\ kfTables' = ImageKeyframes(preset, T)
    /\ UNCHANGED <<kgVars, edgeVars, itpVars, fuiVars, arcVars, cliVars, imgVars, rndVars, rollVars, pgVars>>

(***************************************************************************)
(* KnowledgeGraph rendered again and again by one component instance       *)
(* while the frame, the props and the canvas change between renders.       *)
(***************************************************************************)
\* frames 0..MaxPgFrame are rendered
MaxPgFrame == 8

PgDurations == {1, 24}

PgProps ==
    [nodeCount : {1, MaxNodes},
     nodeSize : {2, DefaultNodeSize},
     accentColor : {"#00BFFF", "#4169E1"},
     secondaryColor : {"#FF6B6B", "#FFD700"}]

PgCanvases ==
    { [width |-> 300, height |-> 400], [width |-> 400, height |-> 400],
      [width |-> 1920, height |-> 1080], [width |-> 1080, height |-> 1920] }

PgInputs(props, canvas, T) ==
    [nodeCount |-> props.nodeCount, nodeSize |-> props.nodeSize,
     accentColor |-> props.accentColor, secondaryColor |-> props.secondaryColor,
     width |-> canvas.width, height |-> canvas.height, durationInFrames |-> T]

PgInit ==
    /\ pgProps \in { PgInputs(props, canvas, T) :
                        props \in PgProps, canvas \in PgCanvases, T \in PgDurations }
    /\ pgFrame = NoFrame
    /\ pgMemo = None
    /\ pgPositions = <<>>
    /\ pgChange = "mount"

PgIdle ==
    /\ pgProps = None
    /\ pgFrame = NoFrame
    /\ pgMemo = None
    /\ pgPositions = None
    /\ pgChange = ""

\* the frame of a render that leaves the frame as it is
PgSameFrame == IF pgFrame = NoFrame THEN 0 ELSE pgFrame

\* one render of the component with inputs c at frame f: the memo cell
\* and the positions it computes
PgRender(c, f) ==
    LET cell == UseMemo(pgMemo, c)
    IN  [memo |-> cell,
         positions |-> CurrentPositions(1, cell.nodes, f, c.durationInFrames)]

\* a render after the frame or durationInFrames changed, nothing else
RenderFrame(f, T) ==
    LET c == [pgProps EXCEPT !.durationInFrames = T]
    IN  /\ pgProps' = c
        /\ pgFrame' = f
        /\ pgMemo' = PgRender(c, f).memo
        /\ pgPositions' = PgRender(c, f).positions
        /\ pgChange' = "frame"
        /\ UNCHANGED <<kgVars, edgeVars, itpVars, fuiVars, arcVars, cliVars, imgVars, rndVars, kfVars, rollVars>>

\* a render after the props changed
RenderProps(props) ==
    LET c == PgInputs(props, pgProps, pgProps.durationInFrames)
    IN  /\ pgProps' = c
        /\ pgFrame' = PgSameFrame
        /\ pgMemo' = PgRender(c, PgSameFrame).memo
        /\ pgPositions' = PgRender(c, PgSameFrame).positions
        /\ pgChange' = "props"
        /\ UNCHANGED <<kgVars, edgeVars, itpVars, fuiVars, arcVars, cliVars, imgVars, rndVars, kfVars, rollVars>>

\* a render after the canvas changed
RenderCanvas(canvas) ==
    LET c == PgInputs(pgProps, canvas, pgProps.durationInFrames)
    IN  /\ pgProps' = c
        /\ pgFrame' = PgSameFrame
        /\ pgMemo' = PgRender(c, PgSameFrame).memo
        /\ pgPositions' = PgRender(c, PgSameFrame).positions
        /\ pgChange' = "canvas"
        /\ UNCHANGED <<kgVars, edgeVars, itpVars, fuiVars, arcVars, cliVars, imgVars, rndVars, kfVars, rollVars>>

(***************************************************************************)
(* GraphConnection: the curve drawn for one entry of `connections`.  The   *)
(* control point is in hundredths of a position unit (CurveScale); a       *)
(* division by zero gives the NaN of the code's arithmetic.                *)
(***************************************************************************)
CurveScale == 10^2

\* a / b as a multiple of 1 / NormScale
Divide(a, b) == IF b = 0 THEN NotANumber ELSE Num((a * NormScale) \div b)

\* base + factor * curveOffset, NaN when the factor is NaN
Offset(base, factor, curveOffset) ==
    IF factor.nan THEN NotANumber
    ELSE Num(base + (factor.v * curveOffset) \div NormScale)

\* if (opacity <= 0) return null, which NaN does not satisfy
GraphConnection(x1, y1, x2, y2, opacity) ==
    IF ~opacity.nan /\ opacity.v <= 0 THEN [drawn |-> FALSE]
    ELSE LET midX == ((x1 + x2) * CurveScale) \div 2
             midY == ((y1 + y2) * CurveScale) \div 2
             dx == x2 - x1
             dy == y2 - y1
             len == Sqrt(dx * dx + dy * dy)
             curveOffset == (len * CurveScale * 5) \div 100
         IN  [drawn |-> TRUE, x1 |-> x1, y1 |-> y1, x2 |-> x2, y2 |-> y2,
              len |-> len,
              curveMidX |-> Offset(midX, Divide(0 - dy, len), curveOffset),
              curveMidY |-> Offset(midY, Divide(dx, len), curveOffset)]

\* connections.map(...): one GraphConnection per entry of the list, once
\* the loop has ended; the opacity of an entry is NaN when the threshold is 0
EdgeDraw ==
    /\ LoopDone(edgeLoop, EdgeN)
    /\ ~edgeLoop.error
    /\ ~edgeCurves.drawn
    /\ edgeCurves' =
          [drawn |-> TRUE,
           elements |->
              [k \in DOMAIN edgeLoop.connections |->
                  LET e == edgeLoop.connections[k]
                  IN  GraphConnection(
                          edgePositions[e.from + 1].x, edgePositions[e.from + 1].y,
                          edgePositions[e.to + 1].x, edgePositions[e.to + 1].y,
                          IF edgeThreshold = 0 THEN NotANumber ELSE Num(e.opacity))]]
    /\ UNCHANGED <<edgePositions, edgeThreshold, edgeLoop>>
    /\ UNCHANGED <<kgVars, itpVars, fuiVars, arcVars, cliVars, imgVars, rndVars, kfVars, rollVars, pgVars>>

(***************************************************************************)
(* seededRandom called again and again, calls with other seeds in between. *)
(***************************************************************************)
\* the seeds of the node generator and a few others, negative ones included
RandomSeeds ==
    {i * 1000 + k : i \in 0..5, k \in 1..10} \cup DOMAIN OtherSines

\* seededRandom is called at most MaxCalls times
MaxCalls == 4

RndInit ==
    /\ rndSeed \in RandomSeeds
    /\ rndOut = None
    /\ rndPrev = None
    /\ rndOther = None
    /\ rndCalls = 0

RndIdle ==
    /\ rndSeed = None
    /\ rndOut = None
    /\ rndPrev = None
    /\ rndOther = None
    /\ rndCalls = 0

\* seededRandom(rndSeed); the value of the call before is kept in rndPrev
CallSeededRandom ==
    /\ rndCalls < MaxCalls
    /\ rndCalls' = rndCalls + 1
    /\ rndPrev' = rndOut
    /\ rndOut' = [value |-> seededRandom(rndSeed)]
    /\ UNCHANGED <<rndSeed, rndOther>>
    /\ UNCHANGED <<kgVars, edgeVars, itpVars, fuiVars, arcVars, cliVars, imgVars, kfVars, rollVars, pgVars>>

\* a call with some other seed in between
CallWithOtherSeed(seed) ==
    /\ rndCalls < MaxCalls
    /\ seed # rndSeed
    /\ rndCalls' = rndCalls + 1
    /\ rndOther' = [seed |-> seed, value |-> seededRandom(seed)]
    /\ UNCHANGED <<rndSeed, rndOut, rndPrev>>
    /\ UNCHANGED <<kgVars, edgeVars, itpVars, fuiVars, arcVars, cliVars, imgVars, kfVars, rollVars, pgVars>>

(***************************************************************************)
(* Specifications.                                                         *)
(***************************************************************************)
Init == KgInit /\ EdgeIdle /\ ItpIdle /\ FuiIdle /\ ArcIdle /\ CliIdle /\ ImgIdle /\ RndIdle
        /\ KfIdle /\ RollIdle /\ PgIdle

Next ==
    \/ \E w \in Workers, f \in Frames : Render(w, f)
    \/ \E w \in Workers : Remount(w)

\* KnowledgeGraph rendered by the render workers, frames in any order
Spec == Init /\ [][Next]_vars

InitEdges == KgIdle /\ EdgeInit /\ ItpIdle /\ FuiIdle /\ ArcIdle /\ CliIdle /\ ImgIdle /\ RndIdle
        /\ KfIdle /\ RollIdle /\ PgIdle

NextEdges == EdgeExamine \/ EdgeAdvance \/ EdgeDraw

\* the connection loop on arbitrary positions
SpecEdges == InitEdges /\ [][NextEdges]_vars

InitInterp == KgIdle /\ EdgeIdle /\ ItpInit /\ FuiIdle /\ ArcIdle /\ CliIdle /\ ImgIdle /\ RndIdle
        /\ KfIdle /\ RollIdle /\ PgIdle

NextInterp == EvalPanoramaProgress \/ EvalClockProgress

\* the progress interpolation on arbitrary inputs
SpecInterp == InitInterp /\ [][NextInterp]_vars

InitFui == KgIdle /\ EdgeIdle /\ ItpIdle /\ FuiInit /\ ArcIdle /\ CliIdle /\ ImgIdle /\ RndIdle
        /\ KfIdle /\ RollIdle /\ PgIdle

NextFui == RenderPanorama \/ RenderClock \/ Rewind

\* the instrument panels played back
SpecFui == InitFui /\ [][NextFui]_vars

InitArc == KgIdle /\ EdgeIdle /\ ItpIdle /\ FuiIdle /\ ArcInit /\ CliIdle /\ ImgIdle /\ RndIdle
        /\ KfIdle /\ RollIdle /\ PgIdle

NextArc == RenderPanoramaArc \/ RenderClockArc

\* ArcGauge on arbitrary props
SpecArc == InitArc /\ [][NextArc]_vars

InitCli ==
    KgIdle /\ EdgeIdle /\ ItpIdle /\ FuiIdle /\ ArcIdle /\ CliInit /\ ImgIdle /\ RndIdle
        /\ KfIdle /\ RollIdle /\ PgIdle

NextCli == RunCli \/ EncoderSucceeds \/ EncoderFails

\* render.mjs on arbitrary command lines
SpecCli == InitCli /\ [][NextCli]_vars

InitImage ==
    KgIdle /\ EdgeIdle /\ ItpIdle /\ FuiIdle /\ ArcIdle /\ CliIdle /\ ImgInit /\ RndIdle
        /\ KfIdle /\ RollIdle /\ PgIdle

NextImage == \E f \in 0..(imgDuration + ImgMargin) : RenderImage(f)

\* ImageAnimator rendered at any frame, in any order
SpecImage == InitImage /\ [][NextImage]_vars

InitRandom ==
    KgIdle /\ EdgeIdle /\ ItpIdle /\ FuiIdle /\ ArcIdle /\ CliIdle /\ ImgIdle /\ RndInit
        /\ KfIdle /\ RollIdle /\ PgIdle

NextRandom ==
    \/ CallSeededRandom
    \/ \E seed \in DOMAIN OtherSines : CallWithOtherSeed(seed)

\* seededRandom called repeatedly
SpecRandom == InitRandom /\ [][NextRandom]_vars

InitRoll ==
    KgIdle /\ EdgeIdle /\ ItpIdle /\ FuiIdle /\ ArcIdle /\ CliIdle /\ ImgIdle /\ RndIdle
        /\ KfIdle /\ RollInit /\ PgIdle

NextRoll == \E f \in 0..MaxRollFrame : RenderRollingNumber(f)

\* one RollingNumber of a DataBlock rendered at frames in any order
SpecRoll == InitRoll /\ [][NextRoll]_vars

InitTables ==
    KgIdle /\ EdgeIdle /\ ItpIdle /\ FuiIdle /\ ArcIdle /\ CliIdle /\ ImgIdle /\ RndIdle
        /\ KfInit /\ RollIdle /\ PgIdle

NextTables ==
    \/ \E T \in 1..MaxTableDuration, width \in {1080, 1920, 4096} :
          RenderPanoramaTables(T, width)
    \/ \E T \in 1..MaxTableDuration : RenderClockTables(T)
    \/ \E T \in 1..MaxTableDuration, preset \in DOMAIN ANIMATION_CONFIGS :
          RenderImageTables(T, preset)

\* the compositions rendered for the keyframe tables they use
SpecTables == InitTables /\ [][NextTables]_vars

InitProps ==
    KgIdle /\ EdgeIdle /\ ItpIdle /\ FuiIdle /\ ArcIdle /\ CliIdle /\ ImgIdle /\ RndIdle
        /\ KfIdle /\ RollIdle /\ PgInit

NextProps ==
    \/ \E f \in 0..MaxPgFrame, T \in PgDurations : RenderFrame(f, T)
    \/ \E props \in PgProps : RenderProps(props)
    \/ \E canvas \in PgCanvases : RenderCanvas(canvas)

\* KnowledgeGraph rendered while frame, props and canvas change
SpecProps == InitProps /\ [][NextProps]_vars

(***************************************************************************)
(* Properties of KnowledgeGraph under Spec.                                *)
(***************************************************************************)
Rendered(w) == frame[w] # NoFrame

\* C1: whatever the order in which the workers were asked for frames, what a
\* worker computed for frame f (positions and connection list) is what the
\* first render of frame f by any worker computed.
FrameOutputDeterministic ==
    \A w \in Workers :
        Rendered(w) =>
            /\ first[frame[w]] # None
            /\ Output(positions[w], connections[w]) = first[frame[w]]

\* C1 witness: both workers hold frame 0, rendered after a later frame had
\* been rendered, with at least one connection in the output.
FrameRenderedAgainOutOfOrder ==
    /\ cfg.durationInFrames >= 2
    /\ \A w \in Workers : Rendered(w) /\ frame[w] = 0
    /\ first[1] # None
    /\ Len(connections[1]) >= 1

\* C2: every generated node is at the same position at frame 0 and at frame
\* durationInFrames.
LoopSeamSeamless ==
    \A w \in Workers :
        memo[w] # None =>
            \A k \in DOMAIN memo[w].nodes :
                getNodePosition(memo[w].nodes[k], 0, cfg.durationInFrames)
                    = getNodePosition(memo[w].nodes[k], cfg.durationInFrames,
                                      cfg.durationInFrames)

\* C6: with nodeCount = 0 a render leaves an empty node set, an empty position
\* list and an empty connection list, and does not throw.
ZeroNodesRenderEmpty ==
    \A w \in Workers :
        (cfg.nodeCount = 0 /\ Rendered(w)) =>
            /\ memo[w] # None => memo[w].nodes = <<>>
            /\ positions[w] = <<>>
            /\ connections[w] = <<>>
            /\ ~renderError[w]

\* C6 witness: a worker has rendered a frame with nodeCount = 0.
ZeroNodesRendered ==
    \E w \in Workers : cfg.nodeCount = 0 /\ Rendered(w) /\ memo[w] # None

(***************************************************************************)
(* Properties of the connection loop under SpecEdges.                      *)
(***************************************************************************)
EdgeLoopEnded == LoopDone(edgeLoop, EdgeN)

\* the unordered pairs of node indices, smaller index first
EdgePairs == { <<i, j>> \in (0..(EdgeN - 1)) \X (0..(EdgeN - 1)) : i < j }

DistSq(p) ==
    LET a == edgePositions[p[1] + 1]
        b == edgePositions[p[2] + 1]
    IN  (b.x - a.x) * (b.x - a.x) + (b.y - a.y) * (b.y - a.y)

EdgesOf(p) ==
    { k \in DOMAIN edgeLoop.connections :
        edgeLoop.connections[k].from = p[1] /\ edgeLoop.connections[k].to = p[2] }

LexBefore(a, b) == a.from < b.from \/ (a.from = b.from /\ a.to < b.to)

\* C3: every entry has from < to within the node indices, the list is in
\* strictly ascending (from, to) order (so no pair occurs twice, in either
\* orientation), no pair is examined twice, and when the loop has ended
\* exactly the N(N-1)/2 unordered pairs have been examined.
ConnectionListWellFormed ==
    /\ ~edgeLoop.error
    /\ \A k \in DOMAIN edgeLoop.connections :
          /\ 0 <= edgeLoop.connections[k].from
          /\ edgeLoop.connections[k].from < edgeLoop.connections[k].to
          /\ edgeLoop.connections[k].to < EdgeN
    /\ \A k \in 1..(Len(edgeLoop.connections) - 1) :
          LexBefore(edgeLoop.connections[k], edgeLoop.connections[k + 1])
    /\ \A a, b \in DOMAIN edgeLoop.examined :
          a # b => edgeLoop.examined[a] # edgeLoop.examined[b]
    /\ EdgeLoopEnded =>
          /\ { edgeLoop.examined[k] : k \in DOMAIN edgeLoop.examined } = EdgePairs
          /\ 2 * Len(edgeLoop.examined) = EdgeN * (EdgeN - 1)

\* C3 witness: the loop has ended on three nodes with all three pairs connected.
ThreeNodesAllConnected ==
    EdgeLoopEnded /\ EdgeN = 3 /\ Len(edgeLoop.connections) = 3

\* C4: when the loop has ended, a pair is in the list exactly if its distance
\* is strictly below the threshold, its opacity is (1 - d/threshold)^2 * 0.8,
\* and every opacity lies in [0, 0.8].
EdgeIffWithinThreshold ==
    EdgeLoopEnded =>
        /\ \A p \in EdgePairs :
              (EdgesOf(p) # {}) <=>
                  (edgeThreshold > 0 /\ DistSq(p) < edgeThreshold * edgeThreshold)
        /\ \A k \in DOMAIN edgeLoop.connections :
              LET e == edgeLoop.connections[k]
                  d == Sqrt(DistSq(<<e.from, e.to>>))
                  rest == NormScale - (d * NormScale) \div edgeThreshold
              IN  /\ e.opacity = (rest * rest * 8) \div 10
                  /\ 0 <= e.opacity
                  /\ e.opacity * 10 <= 8 * OpScale

\* C4 witness: the loop has ended with one pair connected at an opacity
\* strictly between 0 and 0.8 and another pair left out.
EdgePartlyFaded ==
    /\ EdgeLoopEnded
    /\ \E k \in DOMAIN edgeLoop.connections :
          /\ 0 < edgeLoop.connections[k].opacity
          /\ edgeLoop.connections[k].opacity * 10 < 8 * OpScale
    /\ \E p \in EdgePairs : EdgesOf(p) = {}

\* C5 as stated: a pair at exactly the threshold is reported with opacity 0
\* and a pair at distance 0 with opacity 0.8.
ThresholdPairReportedZero ==
    EdgeLoopEnded =>
        \A p \in EdgePairs :
            /\ DistSq(p) = edgeThreshold * edgeThreshold =>
                  \E k \in EdgesOf(p) : edgeLoop.connections[k].opacity = 0
            /\ DistSq(p) = 0 =>
                  \E k \in EdgesOf(p) : edgeLoop.connections[k].opacity * 10 = 8 * OpScale

\* C5 amended: a pair at exactly the threshold is not in the list at all, and
\* with a positive threshold a pair at distance 0 is in the list exactly once
\* with opacity exactly 0.8.
ThresholdPairLeftOut ==
    EdgeLoopEnded =>
        /\ \A p \in EdgePairs :
              DistSq(p) = edgeThreshold * edgeThreshold => EdgesOf(p) = {}
        /\ \A p \in EdgePairs :
              (DistSq(p) = 0 /\ edgeThreshold > 0) =>
                  /\ Cardinality(EdgesOf(p)) = 1
                  /\ \A k \in EdgesOf(p) : edgeLoop.connections[k].opacity * 10 = 8 * OpScale

\* C5 witness: the loop has ended on one pair at exactly a positive threshold
\* and another pair at distance 0.
PairAtThresholdAndPairAtZero ==
    /\ EdgeLoopEnded
    /\ edgeThreshold > 0
    /\ \E p \in EdgePairs : DistSq(p) = edgeThreshold * edgeThreshold
    /\ \E p \in EdgePairs : DistSq(p) = 0

(***************************************************************************)
(* Properties of the progress interpolation under SpecInterp.              *)
(***************************************************************************)
\* C7 as stated: on the table [0, 100] -> [0, 1] with the right side clamped,
\* the value is exactly 1 for every frame >= 100 and exactly 0 for every
\* frame <= 0.
ProgressZeroForNonPositiveFrames ==
    (itpOut # None /\ itpDuration = 100) =>
        /\ itpFrame >= 100 => itpOut.value = OutScale
        /\ itpFrame <= 0 => itpOut.value = 0

\* C7 amended: the value is exactly 1 for every frame >= durationInFrames and
\* exactly 0 at frame 0; below frame 0 the left side is not clamped and the
\* value is frame / durationInFrames, which is negative.
ProgressClampedOnTheRightOnly ==
    itpOut # None =>
        /\ itpFrame >= itpDuration => itpOut.value = OutScale
        /\ itpFrame = 0 => itpOut.value = 0
        /\ itpFrame < 0 =>
              /\ itpOut.value < 0
              /\ itpOut.value = (itpFrame * OutScale) \div itpDuration

\* C7 witness: progress was evaluated past the end of the table [0, 100].
ProgressEvaluatedPastTheEnd ==
    itpOut # None /\ itpDuration = 100 /\ itpFrame > 100 /\ itpOut.value = OutScale

(***************************************************************************)
(* Properties of the instrument panels under SpecFui.                      *)
(***************************************************************************)
PanoramaRendered == fuiOut # None /\ fuiCfg.comp = "FuiPanorama"

\* C8: from one render of FuiPanorama to a render at the same or a later
\* frame, progress and gauge1..gauge4 progress do not decrease, and neither
\* does panOffset when its output range [0, maxPan] is strictly increasing.
InterpolatedValuesMonotone ==
    [][ (PanoramaRendered /\ fuiFrame' >= fuiFrame) =>
            /\ fuiOut'.progress >= fuiOut.progress
            /\ fuiOut'.gauge1 >= fuiOut.gauge1
            /\ fuiOut'.gauge2 >= fuiOut.gauge2
            /\ fuiOut'.gauge3 >= fuiOut.gauge3
            /\ fuiOut'.gauge4 >= fuiOut.gauge4
            /\ fuiOut.maxPan > 0 => fuiOut'.panOffset >= fuiOut.panOffset ]_vars

\* C8 witness: FuiPanorama rendered inside its duration, the eased pan offset
\* strictly between its ends and gauge2 strictly between its ends.
PanEasedMidway ==
    /\ PanoramaRendered
    /\ fuiFrame > 0
    /\ fuiFrame < fuiCfg.durationInFrames
    /\ fuiCfg.panSpeed = 10
    /\ 0 < fuiOut.panOffset
    /\ fuiOut.panOffset < fuiOut.maxPan
    /\ 1000 < fuiOut.gauge2
    /\ fuiOut.gauge2 < 7000

LargeArcFlagsBySpan ==
    arcOut # None =>
        /\ arcOut.bgPath.largeArc \in {0, 1}
        /\ arcOut.progressPath.largeArc \in {0, 1}
        /\ arcOut.bgPath.largeArc = 1 <=> arcIn.endAngle - arcIn.startAngle > 180
        /\ arcOut.progressPath.largeArc = 1 <=>
              (arcIn.endAngle - arcIn.startAngle) * arcIn.progress > 180 * OutScale
        /\ (arcIn.startAngle = 0 /\ arcIn.endAngle = 200) => arcOut.bgPath.largeArc = 1
        /\ (arcIn.startAngle = 0 /\ arcIn.endAngle = 90) => arcOut.bgPath.largeArc = 0

\* C10 witness: the FuiPanorama gauge over 0..200 degrees at progress 1 has
\* been computed, with both flags 1.
WideArcFull ==
    /\ arcOut # None
    /\ arcImpl = "FuiPanorama"
    /\ arcIn.startAngle = 0
    /\ arcIn.endAngle = 200
    /\ arcIn.progress = OutScale
    /\ arcOut.bgPath.largeArc = 1
    /\ arcOut.progressPath.largeArc = 1

(***************************************************************************)
(* Properties of the ArcGauge tick marks under SpecArc.                    *)
(***************************************************************************)
\* the tick count of the gauge computed: the prop in FuiPanorama, 12 in FuiClock
TickCountOf == IF arcImpl = "FuiPanorama" THEN arcIn.tickCount ELSE 12

TicksShown == IF arcImpl = "FuiPanorama" THEN arcIn.showTicks ELSE TRUE

\* C11: for tickCount >= 1 ArcGauge generates exactly tickCount + 1 ticks,
\* tick i at startAngle + (endAngle - startAngle) * i / tickCount, the first
\* at startAngle and the last at endAngle, tick i major exactly when i is a
\* multiple of 3; with showTicks false no tick is generated.
TicksEvenlySpaced ==
    (arcOut # None /\ TickCountOf >= 1) =>
        IF ~TicksShown THEN arcOut.ticks = <<>>
        ELSE /\ Len(arcOut.ticks) = TickCountOf + 1
             /\ arcOut.ticks[1].angle = arcIn.startAngle * AngScale
             /\ arcOut.ticks[TickCountOf + 1].angle = arcIn.endAngle * AngScale
             /\ \A k \in 1..(TickCountOf + 1) :
                   LET tick == arcOut.ticks[k]
                       exact == (arcIn.endAngle - arcIn.startAngle) * AngScale * (k - 1)
                       offset == (tick.angle - arcIn.startAngle * AngScale) * TickCountOf
                   IN  /\ tick.key = k - 1
                       /\ offset <= exact
                       /\ exact < offset + TickCountOf
                       /\ tick.isMajor <=> (k - 1) % 3 = 0

\* C11 witness: the panorama gauge over -135..135 degrees with 24 ticks has
\* been computed, with 25 ticks, the second at -123.75 degrees; and a gauge
\* with showTicks false is covered by TicksHidden.
TwentyFiveTicks ==
    /\ arcOut # None
    /\ arcImpl = "FuiPanorama"
    /\ arcIn.showTicks
    /\ arcIn.tickCount = 24
    /\ arcIn.startAngle = -135
    /\ arcIn.endAngle = 135
    /\ Len(arcOut.ticks) = 25
    /\ arcOut.ticks[2].angle = -12375
    /\ arcOut.ticks[4].isMajor
    /\ ~arcOut.ticks[5].isMajor

\* C12: in FuiPanorama's ArcGauge tick i is active exactly if
\* i / tickCount <= progress, so the active ticks are a prefix of the list;
\* an active tick's opacity is within [0.6, 1], an inactive one's is 0.4 if
\* major and 0.2 if minor.
ActiveTicksArePrefix ==
    (arcOut # None /\ arcImpl = "FuiPanorama" /\ arcIn.tickCount >= 1) =>
        \A k \in 1..Len(arcOut.ticks) :
            LET tick == arcOut.ticks[k]
            IN  /\ tick.isActive <=> (k - 1) * OutScale <= arcIn.progress * arcIn.tickCount
                /\ tick.isActive => \A j \in 1..k : arcOut.ticks[j].isActive
                /\ tick.isActive =>
                      /\ tick.opacity >= (6 * OutScale) \div 10
                      /\ tick.opacity <= OutScale
                /\ (~tick.isActive /\ tick.isMajor) => tick.opacity = (4 * OutScale) \div 10
                /\ (~tick.isActive /\ ~tick.isMajor) => tick.opacity = (2 * OutScale) \div 10

\* C12 witness: a panorama gauge with 20 ticks at progress 0.5 has been
\* computed; tick 10 is active below full opacity, ticks 11 and 12 are not,
\* with opacities 0.2 and 0.4.
HalfOfTheTicksActive ==
    /\ arcOut # None
    /\ arcImpl = "FuiPanorama"
    /\ arcIn.showTicks
    /\ arcIn.tickCount = 20
    /\ 2 * arcIn.progress = OutScale
    /\ arcOut.ticks[11].isActive
    /\ arcOut.ticks[11].opacity < OutScale
    /\ ~arcOut.ticks[12].isActive
    /\ arcOut.ticks[12].opacity = (2 * OutScale) \div 10
    /\ arcOut.ticks[13].opacity = (4 * OutScale) \div 10

\* C13: for startAngle = endAngle, any progress in [0, 1] and any tickCount
\* >= 1, the arc has length zero (start, end and progress end coincide),
\* every tick angle is the number startAngle (no 0 / 0), and the tick loop
\* has ended after tickCount + 1 iterations.
ZeroSpanArcIsAPoint ==
    (arcOut # None /\ arcIn.startAngle = arcIn.endAngle /\ TickCountOf >= 1) =>
        /\ arcOut.start = arcOut.end
        /\ arcOut.progressEnd = arcOut.start
        /\ arcOut.progressAngle = arcIn.startAngle
        /\ arcOut.bgPath.largeArc = 0
        /\ arcOut.progressPath.largeArc = 0
        /\ Len(arcOut.ticks) = IF TicksShown THEN TickCountOf + 1 ELSE 0
        /\ \A k \in 1..Len(arcOut.ticks) :
              /\ arcOut.ticks[k].angle \in Int
              /\ arcOut.ticks[k].angle = arcIn.startAngle * AngScale

\* C13 witness: the FuiClock gauge with startAngle = endAngle = 45 at
\* progress 0.5 has been computed, with its 13 ticks.
ZeroSpanClockGaugeComputed ==
    /\ arcOut # None
    /\ arcImpl = "FuiClock"
    /\ arcIn.startAngle = 45
    /\ arcIn.endAngle = 45
    /\ 2 * arcIn.progress = OutScale
    /\ Len(arcOut.ticks) = 13

\* C14: progressAngle = startAngle + (endAngle - startAngle) * progress; at
\* progress 0 the progress path ends at the start point, at progress 1 at
\* the background path's end point; and angle 0 maps to (cx, cy - radius),
\* angle 90 to (cx + radius, cy).
ProgressPathEndsWithTheBackground ==
    arcOut # None =>
        /\ arcOut.progressAngle =
              arcIn.startAngle
                + ((arcIn.endAngle - arcIn.startAngle) * arcIn.progress) \div OutScale
        /\ arcOut.bgPath.from = arcOut.progressPath.from
        /\ arcIn.progress = 0 => arcOut.progressPath.to = arcOut.bgPath.from
        /\ arcIn.progress = OutScale => arcOut.progressPath.to = arcOut.bgPath.to
        /\ arcIn.startAngle = 0 =>
              arcOut.start = [x |-> arcIn.cx * PosScale,
                              y |-> (arcIn.cy - arcIn.radius) * PosScale]
        /\ arcIn.endAngle = 90 =>
              arcOut.end = [x |-> (arcIn.cx + arcIn.radius) * PosScale,
                            y |-> arcIn.cy * PosScale]

\* C14 witness: the FuiClock gauge over 0..90 degrees at progress 1 has
\* been computed: it starts above the centre and its progress path ends at
\* the right of the centre, away from its start.
QuarterArcFull ==
    /\ arcOut # None
    /\ arcImpl = "FuiClock"
    /\ arcIn.startAngle = 0
    /\ arcIn.endAngle = 90
    /\ arcIn.progress = OutScale
    /\ arcOut.progressPath.to # arcOut.progressPath.from
    /\ arcOut.progressPath.to.x = (arcIn.cx + arcIn.radius) * PosScale

(***************************************************************************)
(* Properties of render.mjs under SpecCli.                                 *)
(***************************************************************************)
HelpRequested == Includes(cliArgs, "--help") \/ Includes(cliArgs, "-h")

CliComposition == getArg(cliArgs, "--composition", Null)
CliImage == getArg(cliArgs, "--image", Null)
CliPreset == getArg(cliArgs, "--preset", "ken-burns")
CliDuration == parseFloat(getArg(cliArgs, "--duration", "5"))
CliFps == parseInt(getArg(cliArgs, "--fps", "30"))

\* the command line selects ImageAnimator: by --image or by --composition
SelectsImageAnimator == Truthy(CliImage) \/ CliComposition = "ImageAnimator"

PresetNames == {validPresets[k] : k \in 1..Len(validPresets)}

\* C15: a command line that selects ImageAnimator with a --preset that is
\* none of the seven names ends with exit code 1 and the encoder is never
\* called, so nothing is rendered with another preset; and the names
\* accepted are the keys of ANIMATION_CONFIGS.
InvalidPresetEndsInError ==
    /\ PresetNames = DOMAIN ANIMATION_CONFIGS
    /\ (cliPc # "start" /\ ~HelpRequested /\ SelectsImageAnimator
          /\ CliPreset \notin PresetNames) =>
           /\ cliCmd = None
           /\ cliVideo = None
           /\ cliExit = 1

\* C16: the script exits with 1 when the local image path does not exist,
\* when the preset of an ImageAnimator render is invalid, or when the
\* encoder fails; it exits with 0 only after the encoder succeeded or when
\* help was requested.
ExitCodeReportsOutcome ==
    cliPc = "exited" =>
        /\ (~HelpRequested /\ Truthy(CliImage) /\ ~IsUrl(CliImage)
              /\ resolve(CliImage) \notin ExistingPaths) => cliExit = 1
        /\ (~HelpRequested /\ SelectsImageAnimator /\ CliPreset \notin PresetNames) =>
              cliExit = 1
        /\ (cliCmd # None /\ cliVideo = None) => cliExit = 1
        /\ cliExit = 0 => (HelpRequested \/ cliVideo # None)

\* C17: whenever the encoder is called the frame count handed over is
\* round(duration * fps) and an integer greater than 0, whatever --duration
\* and --fps were.
FrameCountHandedOverPositive ==
    cliCmd # None =>
        /\ cliCmd.durationInFrames = RoundProduct(CliDuration, CliFps)
        /\ ~cliCmd.durationInFrames.nan
        /\ cliCmd.durationInFrames.v > 0

\* C18: a video rendered with --duration D and --fps F has the frame rate F
\* and plays for D seconds (to within half a frame).
VideoPlaysAtRequestedRate ==
    cliVideo # None =>
        LET frames == cliVideo.durationInFrames.v
            off == frames * DurScale - CliDuration.v * cliVideo.fps
        IN  /\ cliVideo.fps = CliFps.v
            /\ 2 * off <= DurScale
            /\ 2 * off >= -DurScale

\* C21: a command line with neither --image nor --composition exits with
\* code 1 (either --composition or --image must be specified) and the
\* encoder is not called.
NoSelectionIsAnError ==
    (cliPc # "start" /\ ~HelpRequested /\ ~Truthy(CliImage) /\ ~Truthy(CliComposition)) =>
        /\ cliCmd = None
        /\ cliVideo = None
        /\ cliExit = 1

\* C24: when the script exits with 1 out of a validation (invalid preset,
\* missing image file, invalid composition name) it has made no directory
\* and has not called the encoder; and with --help it exits 0 before any
\* validation, directory creation or encoder call.
ValidationFailsBeforeAnyEffect ==
    cliPc # "start" =>
        /\ HelpRequested =>
              /\ cliPc = "exited"
              /\ cliExit = 0
              /\ cliCmd = None
              /\ cliPaths = ExistingPaths
        /\ (~HelpRequested /\ Truthy(CliImage) /\ CliPreset \notin PresetNames) =>
              (cliExit = 1 /\ cliCmd = None /\ cliPaths = ExistingPaths)
        /\ (~HelpRequested /\ Truthy(CliImage) /\ ~IsUrl(CliImage)
              /\ resolve(CliImage) \notin ExistingPaths) =>
              (cliExit = 1 /\ cliCmd = None /\ cliPaths = ExistingPaths)
        /\ (~HelpRequested /\ ~Truthy(CliImage) /\ Truthy(CliComposition)
              /\ ~Includes(validCompositions, CliComposition)) =>
              (cliExit = 1 /\ cliCmd = None /\ cliPaths = ExistingPaths)
        /\ cliCmd = None => cliPaths = ExistingPaths

\* C24 witness: a command line with --output in a directory that does not
\* exist and a missing image file has exited with 1; the directory has not
\* been made.
MissingImageExitedWithoutDirectory ==
    /\ cliPc = "exited"
    /\ cliExit = 1
    /\ cliCmd = None
    /\ ~HelpRequested
    /\ CliImage = "./missing.jpg"
    /\ CliPreset \in PresetNames
    /\ getArg(cliArgs, "--output", "./output.mp4") = "./out/video.mp4"
    /\ "/work/out" \notin cliPaths

\* C28: each composition RemotionRoot registers can be selected with
\* --composition and reaches the encoder; a composition name is rejected
\* only if it is not registered.
RegisteredCompositionsRenderable ==
    (cliPc # "start" /\ ~HelpRequested /\ ~Truthy(CliImage) /\ Truthy(CliComposition)) =>
        /\ CliComposition \in RegisteredCompositions =>
              (cliCmd # None /\ cliCmd.composition = CliComposition)
        /\ cliCmd = None => CliComposition \notin RegisteredCompositions

\* C30: with --image the composition rendered is ImageAnimator whatever
\* --composition says; an http://, https:// or file:// source goes to the
\* encoder unchanged with no look at the file system; any other source is
\* made absolute, must exist, and goes to the encoder as its file:// URL.
ImageSourceSelectsImageAnimator ==
    (cliPc # "start" /\ ~HelpRequested /\ Truthy(CliImage) /\ CliPreset \in PresetNames) =>
        IF IsUrl(CliImage)
        THEN /\ cliCmd # None
             /\ cliCmd.composition = "ImageAnimator"
             /\ cliCmd.props.imageSrc = CliImage
             /\ cliCmd.props.preset = CliPreset
        ELSE IF resolve(CliImage) \in ExistingPaths
        THEN /\ cliCmd # None
             /\ cliCmd.composition = "ImageAnimator"
             /\ cliCmd.props.imageSrc = pathToFileURL(resolve(CliImage))
             /\ IsUrl(CliImage) \/ cliCmd.props.imageSrc # CliImage
             /\ cliCmd.props.preset = CliPreset
        ELSE /\ cliCmd = None
             /\ cliExit = 1

\* C30 witness: --composition FuiClock --image ./photo.jpg has reached the
\* encoder as ImageAnimator with the image file:///work/photo.jpg.
ImageOverridesComposition ==
    /\ cliCmd # None
    /\ CliComposition = "FuiClock"
    /\ CliImage = "./photo.jpg"
    /\ cliCmd.composition = "ImageAnimator"
    /\ cliCmd.props.imageSrc = "file:///work/photo.jpg"

(***************************************************************************)
(* Properties of ImageAnimator under SpecImage.                            *)
(***************************************************************************)
\* v lies on the line from a at frame 0 to b at frame T, to within the
\* resolution of the fixed point
OnTheLine(v, a, b, f, T) ==
    LET dev == (v - a) * T - (b - a) * f
        slack == T * (EaseScale + (IF b >= a THEN b - a ELSE a - b))
    IN  dev * EaseScale <= slack /\ dev * EaseScale >= -slack

\* C19: for every preset and every T > 0, scale, translateX and translateY
\* are the start values at frame 0, the end values at every frame >= T and
\* linear in between, so at frame T / 2 they are the midpoints; for
\* ken-burns over 150 frames scale is 1.0 at frame 0 and about 1.25 at
\* frame 149, and translateX is 0 at frame 75.
ImageTransformLinear ==
    imgOut # None =>
        LET c == ANIMATION_CONFIGS[imgPreset]
            f == imgFrame
            T == imgDuration
        IN  /\ f = 0 =>
                  /\ imgOut.scale = c.startScale
                  /\ imgOut.translateX = c.startX
                  /\ imgOut.translateY = c.startY
            /\ f >= T =>
                  /\ imgOut.scale = c.endScale
                  /\ imgOut.translateX = c.endX
                  /\ imgOut.translateY = c.endY
            /\ 2 * f = T =>
                  /\ 2 * imgOut.scale = c.startScale + c.endScale
                  /\ 2 * imgOut.translateX = c.startX + c.endX
                  /\ 2 * imgOut.translateY = c.startY + c.endY
            /\ f <= T =>
                  /\ OnTheLine(imgOut.scale, c.startScale, c.endScale, f, T)
                  /\ OnTheLine(imgOut.translateX, c.startX, c.endX, f, T)
                  /\ OnTheLine(imgOut.translateY, c.startY, c.endY, f, T)
            /\ (imgPreset = "ken-burns" /\ T = 150) =>
                  /\ f = 0 => imgOut.scale = CfgScale
                  /\ f = 149 => /\ imgOut.scale < (125 * CfgScale) \div 100
                                /\ imgOut.scale >= (124 * CfgScale) \div 100
                  /\ f = 75 => imgOut.translateX = 0

\* C19 witness: ken-burns over 150 frames rendered at frame 149, the scale
\* just below 1.25 and the image shifted right of the centre.
KenBurnsLastFrame ==
    /\ imgOut # None
    /\ imgPreset = "ken-burns"
    /\ imgDuration = 150
    /\ imgFrame = 149
    /\ imgOut.scale > (124 * CfgScale) \div 100
    /\ imgOut.scale < (125 * CfgScale) \div 100
    /\ imgOut.translateX > 4 * CfgScale

(***************************************************************************)
(* Properties of seededRandom under SpecRandom.                            *)
(***************************************************************************)
\* C20: seededRandom returns a value in [0, 1), never 1 and never negative,
\* and the same value on every call with the same seed, whatever was called
\* in between.
SeededRandomInUnitRangeAndStable ==
    /\ rndOut # None =>
          /\ rndOut.value >= 0
          /\ rndOut.value < RandScale
          /\ rndPrev # None => rndPrev.value = rndOut.value
    /\ rndOther # None =>
          /\ rndOther.value >= 0
          /\ rndOther.value < RandScale

\* C20 witness: a seed whose scaled sine is negative has been drawn three
\* times, a call with another seed made as well, and the value is above 0.
NegativeSineSeedDrawnAgain ==
    /\ rndOut # None
    /\ rndPrev # None
    /\ rndOther # None
    /\ rndCalls = MaxCalls
    /\ ScaledSine(rndSeed) < 0
    /\ rndOut.value > 0

(***************************************************************************)
(* Properties of the keyframe tables under SpecTables.                     *)
(***************************************************************************)
\* C22: for every composition and every durationInFrames > 0, every
\* keyframe table handed to interpolate has a strictly increasing
\* inputRange of the length of its outputRange, with at least two points.
KeyframeTablesValid ==
    \A name \in DOMAIN kfTables :
        ValidRanges(kfTables[name].inputRange, kfTables[name].outputRange)

\* C22 witness: FuiPanorama rendered with a single frame, where the input
\* range of gauge2 is the narrowest: 0.1 to 0.6 of a frame.
PanoramaTablesOfOneFrame ==
    /\ kfComposition = "FuiPanorama"
    /\ kfDuration = 1
    /\ kfTables.gauge2Progress.inputRange = <<1, 6>>
    /\ Len(kfTables.panOffset.inputRange) = 2

(***************************************************************************)
(* Properties of the re-rendered KnowledgeGraph under SpecProps.           *)
(***************************************************************************)
\* the memoized nodes are the nodes generated from the current inputs
MemoizedNodesFresh == pgMemo # None => pgMemo.nodes = GenerateNodes(pgProps)

\* a render after a change of frame or durationInFrames keeps every node
FrameChangeKeepsNodes ==
    (pgMemo # None /\ pgChange' = "frame") => pgMemo'.nodes = pgMemo.nodes

\* C23: after any sequence of renders in which frame, props and canvas size
\* change, the memoized node set equals the node set generated afresh from
\* the current props and canvas size, and a change of frame or
\* durationInFrames alone changes no attribute of any node.
MemoizedNodesTrackInputs == [](MemoizedNodesFresh) /\ [][FrameChangeKeepsNodes]_vars

\* C23 witness: the last render followed a change of the canvas to 400 x 400
\* at a frame after the first, and the cell holds MaxNodes nodes.
RenderedAfterResize ==
    /\ pgChange = "canvas"
    /\ pgFrame > 0
    /\ pgProps.width = 400
    /\ pgProps.height = 400
    /\ pgMemo # None
    /\ Len(pgMemo.nodes) = MaxNodes

\* C25: on a canvas of width >= 400 and height >= 400, every node is at
\* every frame inside the canvas, 0 <= x <= width and 0 <= y <= height: its
\* base position keeps the padding of 200 from every side and its
\* displacement from the base is below 170 on each axis.
NodesInsideCanvas ==
    (pgMemo # None /\ pgProps.width >= 400 /\ pgProps.height >= 400) =>
        \A k \in DOMAIN pgPositions :
            LET node == pgMemo.nodes[k]
                pos == pgPositions[k]
            IN  /\ 0 <= pos.x /\ pos.x <= pgProps.width * PosScale
                /\ 0 <= pos.y /\ pos.y <= pgProps.height * PosScale
                /\ Padding * PosScale <= node.baseX
                /\ node.baseX <= (pgProps.width - Padding) * PosScale
                /\ Padding * PosScale <= node.baseY
                /\ node.baseY <= (pgProps.height - Padding) * PosScale
                /\ pos.x - node.baseX < 170 * PosScale
                /\ node.baseX - pos.x < 170 * PosScale
                /\ pos.y - node.baseY < 170 * PosScale
                /\ node.baseY - pos.y < 170 * PosScale

\* C25 witness: MaxNodes nodes on the smallest canvas, 400 x 400, where
\* every base position is the centre, at a frame where a node is more than
\* 100 away from its base on the x axis.
NodeFarFromBaseOnSmallestCanvas ==
    /\ pgMemo # None
    /\ pgProps.width = 400
    /\ pgProps.height = 400
    /\ pgFrame > 0
    /\ Len(pgPositions) = MaxNodes
    /\ \E k \in DOMAIN pgPositions :
          \/ pgPositions[k].x - pgMemo.nodes[k].baseX > 100 * PosScale
          \/ pgMemo.nodes[k].baseX - pgPositions[k].x > 100 * PosScale

(***************************************************************************)
(* Properties of the drawn connections under SpecEdges.                    *)
(***************************************************************************)
\* C26: for every edge the connection loop emits, GraphConnection computes
\* its control point without dividing by zero: the segment length is not
\* zero, also for two nodes at the same position.
ControlPointsWithoutZeroDivision ==
    edgeCurves.drawn =>
        \A k \in DOMAIN edgeCurves.elements :
            LET curve == edgeCurves.elements[k]
            IN  curve.drawn =>
                    /\ curve.len # 0
                    /\ ~curve.curveMidX.nan
                    /\ ~curve.curveMidY.nan

(***************************************************************************)
(* Properties of RollingNumber under SpecRoll.                             *)
(***************************************************************************)
DecimalDigits == {"0", "1", "2", "3", "4", "5", "6", "7", "8", "9"}

\* floor(value + effectiveFrame * speed * 0.3)
SettledValue(props, effectiveFrame) ==
    (props.value * RollScale + effectiveFrame * props.speed * 3) \div RollScale

\* C27: for every DataBlock and every frame >= 0 the string RollingNumber
\* displays has exactly `digits` characters, all of them decimal digits
\* (never a minus sign), and from effective frame 30 on the settling noise
\* is 0 and the string is floor(value + effectiveFrame * speed * 0.3) cut to
\* its last `digits` digits.
RollingNumberShowsDigits ==
    rollOut # None =>
        /\ Len(rollOut.displayValue) = rollProps.digits
        /\ \A k \in DOMAIN rollOut.displayValue : rollOut.displayValue[k] \in DecimalDigits
        /\ rollOut.effectiveFrame >= 30 =>
              /\ rollOut.noise = 0
              /\ rollOut.displayValue =
                    SliceLast(PadStart(DigitsOf(SettledValue(rollProps, rollOut.effectiveFrame)),
                                       rollProps.digits, "0"),
                              rollProps.digits)

(***************************************************************************)
(* Properties of the pan of FuiPanorama under SpecFui.                     *)
(***************************************************************************)
\* C29: in FuiPanorama, for every frame >= 0, a canvas width of at most
\* 4000 and a panSpeed in [0, 1], 0 <= panOffset <= SCENE_WIDTH - width; at
\* frame 0 the offset is 0 and at every frame >= durationInFrames it is
\* (SCENE_WIDTH - width) * panSpeed.
PanOffsetInsideScene ==
    (PanoramaRendered /\ fuiCfg.width <= 4000 /\ fuiCfg.panSpeed <= 10) =>
        /\ 0 <= fuiOut.panOffset
        /\ fuiOut.panOffset <= SCENE_WIDTH - fuiCfg.width
        /\ fuiFrame = 0 => fuiOut.panOffset = 0
        /\ fuiFrame >= fuiCfg.durationInFrames =>
              fuiOut.panOffset * 10 = (SCENE_WIDTH - fuiCfg.width) * fuiCfg.panSpeed

\* C29 witness: a 1080 wide canvas at half the pan speed, rendered past the
\* last frame of a 30 frame composition: the offset stays at 1460.
HalfSpeedPanHeldPastTheEnd ==
    /\ PanoramaRendered
    /\ fuiCfg.width = 1080
    /\ fuiCfg.panSpeed = 5
    /\ fuiCfg.durationInFrames = 30
    /\ fuiFrame > 30
    /\ fuiOut.panOffset = 1460

====
